---- MODULE Spec2Model ----
(***************************************************************************)
(* Synqra: one query AST, lowered by a relational and by a document        *)
(* compiler, a capability validator, a fluent AST builder and a router     *)
(* with observers.  Each part has its own specification over the shared    *)
(* variables; the variables a specification does not use stay as Init set  *)
(* them.                                                                   *)
(***************************************************************************)
EXTENDS Integers, Sequences, FiniteSets, TLC

VARIABLES
  ast,        \* compiler: the QueryAST handed to both adapters' plan()
  pgPlan,     \* compiler: PostgresAdapter.plan(ast), Undefined before the call
  mongoPlan,  \* compiler: MongoAdapter.plan(ast), Undefined before the call
  vQuery,     \* validator: the QueryAST given to validateQuery
  vCaps,      \* validator: the AdapterCapabilities given to validateQuery
  vResult,    \* validator: NotCalled before the call, then what validateQuery did
  qb,         \* builder: the QueryBuilder's fields (b) and the calls made on it
  built,      \* builder: the ASTs build() has returned
  adapters,   \* Synqra.adapters: the adapter registered under each name
  intent,     \* resolver: the argument of getAdapterByIntent
  resolved,   \* resolver: the adapter getAdapterByIntent returned
  observers,  \* Synqra.observers, in registration order
  sq,         \* router: the SynqraQuery in hand (its builder and forcedIntent)
  run,        \* router: the execution in progress or last finished
  events,     \* router: what that execution has called so far, in order
  tx,         \* transaction: the call of Synqra.transaction in progress or last finished
  models,     \* sync: the ModelSchema list given to sync()
  tables,     \* sync: the relational database, the columns of each table that exists
  collections,\* sync: the document database, the names of its collections
  syncs,      \* sync: the sync() calls in progress or finished
  aggQuery,   \* aggregate: the QueryAST given to MongoAdapter.executeAggregate
  aggDocs,    \* aggregate: the documents of the collection
  aggOut      \* aggregate: Undefined before the call, then the rows returned

compilerVars == <<ast, pgPlan, mongoPlan>>
validatorVars == <<vQuery, vCaps, vResult>>
builderVars == <<qb, built>>
resolverVars == <<intent, resolved>>
routerVars == <<adapters, observers, sq, run, events>>
txVars == <<tx>>
syncVars == <<models, tables, collections, syncs>>
aggVars == <<aggQuery, aggDocs, aggOut>>
vars == <<compilerVars, validatorVars, builderVars, resolverVars, routerVars, txVars, syncVars, aggVars>>

(***************************************************************************)
(* Values.  An optional field (x?: T) is <<>> when undefined and <<v>>     *)
(* when set.  A condition value is a scalar or an array (Array.isArray).   *)
(* NULL is the null of a row's field.                                      *)
(***************************************************************************)
Undefined == <<>>
Some(v) == <<v>>
IsDefined(o) == Len(o) > 0
Get(o) == o[1]
ListOf(o) == IF IsDefined(o) THEN Get(o) ELSE <<>>

NULL == 0 - 1
Scalar(n) == [isArray |-> FALSE, items |-> <<n>>]
Arr(s) == [isArray |-> TRUE, items |-> s]

Condition(f, op, v) == [field |-> f, operator |-> op, value |-> v]
LogicalGroup(t, cs) == [type |-> t, conditions |-> cs]
\* "type" in c && (c.type === "AND" || c.type === "OR")
IsLogicalGroup(c) == "type" \in DOMAIN c /\ c.type \in {"AND", "OR"}

AggregationOp(fn, f, al) == [function |-> fn, field |-> f, alias |-> al]

QueryAST(ty, conds, logical, gb, aggs, data, lim, off, ob, sel) ==
  [type |-> ty, table |-> "t", conditions |-> conds, logical |-> logical,
   groupBy |-> gb, aggregations |-> aggs, data |-> data, limit |-> lim,
   offset |-> off, orderBy |-> ob, select |-> sel]

(***************************************************************************)
(* Statement text is a sequence of tokens: words and symbols, placeholders *)
(* $n, and numbers written into the text (LIMIT n).                        *)
(***************************************************************************)
Tok(s) == [k |-> "txt", s |-> s, n |-> 0]
Ph(n) == [k |-> "ph", s |-> "$", n |-> n]
Num(n) == [k |-> "num", s |-> "", n |-> n]

RECURSIVE Join(_, _)
\* Array.prototype.join over pieces of text
Join(parts, sep) ==
  IF Len(parts) = 0 THEN <<>>
  ELSE IF Len(parts) = 1 THEN parts[1]
  ELSE parts[1] \o <<sep>> \o Join(Tail(parts), sep)

(***************************************************************************)
(* PostgresAdapter: the relational compiler.  values is the array the      *)
(* builders push to; each returns the text it built and the array after.   *)
(***************************************************************************)
MapOperator(op) ==
  CASE op = "eq" -> "="
    [] op = "gt" -> ">"
    [] op = "lt" -> "<"
    [] op = "gte" -> ">="
    [] op = "lte" -> "<="
    [] op = "in" -> "IN"

\* PgBuildCondition with the placeholder numbered before the push
PgBuildCondition_NumberBeforePush(c, values) ==
  IF c.operator = "in" /\ c.value.isArray
  THEN IF Len(c.value.items) = 0
       THEN [text |-> <<Tok("1=0")>>, values |-> values]
       ELSE [text |-> <<Tok(c.field), Tok("IN"), Tok("(")>>
                      \o Join([i \in 1..Len(c.value.items) |-> <<Ph(Len(values) + i)>>], Tok(","))
                      \o <<Tok(")")>>,
             values |-> values \o c.value.items]
  ELSE [text |-> <<Tok(c.field), Tok(MapOperator(c.operator)), Ph(Len(values))>>,
        values |-> Append(values, c.value.items[1])]

\* PgBuildCondition without the empty-array case
PgBuildCondition_NoEmptyCase(c, values) ==
  IF c.operator = "in" /\ c.value.isArray
  THEN [text |-> <<Tok(c.field), Tok("IN"), Tok("(")>>
                 \o Join([i \in 1..Len(c.value.items) |-> <<Ph(Len(values) + i)>>], Tok(","))
                 \o <<Tok(")")>>,
        values |-> values \o c.value.items]
  ELSE [text |-> <<Tok(c.field), Tok(MapOperator(c.operator)), Ph(Len(values) + 1)>>,
        values |-> Append(values, c.value.items[1])]

PgBuildCondition(c, values) ==
  IF c.operator = "in" /\ c.value.isArray
  THEN IF Len(c.value.items) = 0
       THEN [text |-> <<Tok("1=0")>>, values |-> values]
       ELSE [text |-> <<Tok(c.field), Tok("IN"), Tok("(")>>
                      \o Join([i \in 1..Len(c.value.items) |-> <<Ph(Len(values) + i)>>], Tok(","))
                      \o <<Tok(")")>>,
             values |-> values \o c.value.items]
  ELSE [text |-> <<Tok(c.field), Tok(MapOperator(c.operator)), Ph(Len(values) + 1)>>,
        values |-> Append(values, c.value.items[1])]

RECURSIVE PgBuildLogicalGroup(_, _), PgMapClauses(_, _, _)
\* group.conditions.map(...): the clauses of cs, left to right, pushing to values
PgMapClauses(cs, clauses, values) ==
  IF Len(cs) = 0 THEN [clauses |-> clauses, values |-> values]
  ELSE LET r == IF IsLogicalGroup(cs[1])
                THEN PgBuildLogicalGroup(cs[1], values)
                ELSE PgBuildCondition(cs[1], values)
       IN PgMapClauses(Tail(cs), Append(clauses, r.text), r.values)

PgBuildLogicalGroup(group, values) ==
  IF Len(group.conditions) = 0
  THEN [text |-> <<Tok("1=1")>>, values |-> values]
  ELSE LET r == PgMapClauses(group.conditions, <<>>, values)
       IN [text |-> <<Tok("(")>> \o Join(r.clauses, Tok(group.type)) \o <<Tok(")")>>,
           values |-> r.values]

PgBuildWhere(query, values) ==
  LET r1 == IF IsDefined(query.conditions)
            THEN PgMapClauses(Get(query.conditions), <<>>, values)
            ELSE [clauses |-> <<>>, values |-> values]
      r2 == IF IsDefined(query.logical)
            THEN PgMapClauses(Get(query.logical), r1.clauses, r1.values)
            ELSE r1
  IN [text |-> IF Len(r2.clauses) > 0
               THEN <<Tok("WHERE")>> \o Join(r2.clauses, Tok("AND"))
               ELSE <<>>,
      values |-> r2.values]

ToUpperCase(s) ==
  CASE s = "count" -> "COUNT"
    [] s = "sum" -> "SUM"
    [] s = "avg" -> "AVG"
    [] s = "min" -> "MIN"
    [] s = "max" -> "MAX"
    [] s = "asc" -> "ASC"
    [] s = "desc" -> "DESC"

PgAggItem(agg) ==
  <<Tok(ToUpperCase(agg.function)), Tok("("), Tok(agg.field), Tok(")")>>
  \o (IF IsDefined(agg.alias) /\ Get(agg.alias) # ""
      THEN <<Tok("AS"), Tok(Get(agg.alias))>> ELSE <<>>)

PgBuildSelect(query) ==
  LET selectItems ==
        (IF IsDefined(query.select)
         THEN [i \in 1..Len(Get(query.select)) |-> <<Tok(Get(query.select)[i])>>]
         ELSE <<>>)
        \o (IF IsDefined(query.aggregations)
            THEN [i \in 1..Len(Get(query.aggregations)) |-> PgAggItem(Get(query.aggregations)[i])]
            ELSE <<>>)
      head == <<Tok("SELECT")>>
              \o (IF Len(selectItems) > 0 THEN Join(selectItems, Tok(",")) ELSE <<Tok("*")>>)
              \o <<Tok("FROM"), Tok(query.table)>>
      w == PgBuildWhere(query, <<>>)
  IN [text |-> head \o w.text
               \o (IF IsDefined(query.groupBy)
                   THEN <<Tok("GROUP BY")>>
                        \o Join([i \in 1..Len(Get(query.groupBy)) |-> <<Tok(Get(query.groupBy)[i])>>], Tok(","))
                   ELSE <<>>)
               \o (IF IsDefined(query.orderBy)
                   THEN <<Tok("ORDER BY"), Tok(Get(query.orderBy).field),
                          Tok(ToUpperCase(Get(query.orderBy).direction))>>
                   ELSE <<>>)
               \o (IF IsDefined(query.limit) THEN <<Tok("LIMIT"), Num(Get(query.limit))>> ELSE <<>>)
               \o (IF IsDefined(query.offset) THEN <<Tok("OFFSET"), Num(Get(query.offset))>> ELSE <<>>),
      values |-> w.values]

\* query.data is a sequence of [key, value] entries in insertion order
ObjectKeys(data) == [i \in 1..Len(data) |-> data[i].key]
ObjectValues(data) == [i \in 1..Len(data) |-> data[i].value]

PgBuildInsert(query) ==
  LET keys == ObjectKeys(Get(query.data))
  IN [text |-> <<Tok("INSERT INTO"), Tok(query.table), Tok("(")>>
               \o Join([i \in 1..Len(keys) |-> <<Tok(keys[i])>>], Tok(","))
               \o <<Tok(")"), Tok("VALUES"), Tok("(")>>
               \o Join([i \in 1..Len(keys) |-> <<Ph(i)>>], Tok(","))
               \o <<Tok(")"), Tok("RETURNING"), Tok("*")>>,
      values |-> ObjectValues(Get(query.data))]

PgBuildUpdate(query) ==
  LET keys == ObjectKeys(Get(query.data))
      w == PgBuildWhere(query, ObjectValues(Get(query.data)))
  IN [text |-> <<Tok("UPDATE"), Tok(query.table), Tok("SET")>>
               \o Join([i \in 1..Len(keys) |-> <<Tok(keys[i]), Tok("="), Ph(i)>>], Tok(","))
               \o w.text,
      values |-> w.values]

PgBuildDelete(query) ==
  LET w == PgBuildWhere(query, <<>>)
  IN [text |-> <<Tok("DELETE FROM"), Tok(query.table)>> \o w.text, values |-> w.values]

Translate(query) ==
  CASE query.type = "select" -> PgBuildSelect(query)
    [] query.type = "insert" -> PgBuildInsert(query)
    [] query.type = "update" -> PgBuildUpdate(query)
    [] query.type = "delete" -> PgBuildDelete(query)

PgPlanOf(query) ==
  LET r == Translate(query)
  IN [type |-> "sql", query |-> r.text, values |-> r.values]

\* a call of plan() that an exception left
PlanThrew(e, msg) == [type |-> "threw", error |-> e, message |-> msg]

\* Object.keys(query.data!) with data undefined
PgPlanThrows(query) == query.type \in {"insert", "update"} /\ ~IsDefined(query.data)

\* what a call of PostgresAdapter.plan(query) ends with: the plan, or the TypeError
PgPlanCall(query) ==
  IF PgPlanThrows(query)
  THEN PlanThrew("TypeError", "Cannot convert undefined or null to object")
  ELSE PgPlanOf(query)

(***************************************************************************)
(* MongoAdapter: the document compiler.  A filter document is {} ("empty"),*)
(* {field: value} or {field: {$op: value}} ("cmp"), or {$and|$or: [...]}.  *)
(***************************************************************************)
EmptyDoc == [k |-> "empty"]
FieldDoc(f, op, v) == [k |-> "cmp", field |-> f, op |-> op, value |-> v]
LogicalDoc(op, clauses) == [k |-> op, clauses |-> clauses]

MongoBuildCondition(cond) ==
  CASE cond.operator = "eq" -> FieldDoc(cond.field, "eq", cond.value)
    [] cond.operator = "gt" -> FieldDoc(cond.field, "$gt", cond.value)
    [] cond.operator = "lt" -> FieldDoc(cond.field, "$lt", cond.value)
    [] cond.operator = "gte" -> FieldDoc(cond.field, "$gte", cond.value)
    [] cond.operator = "lte" -> FieldDoc(cond.field, "$lte", cond.value)
    [] cond.operator = "in" ->
         FieldDoc(cond.field, "$in",
                  IF cond.value.isArray THEN cond.value ELSE Arr(cond.value.items))

RECURSIVE MongoBuildLogicalGroup(_)
MongoBuildLogicalGroup(group) ==
  IF Len(group.conditions) = 0 THEN EmptyDoc
  ELSE LET clauses == [i \in 1..Len(group.conditions) |->
                         IF IsLogicalGroup(group.conditions[i])
                         THEN MongoBuildLogicalGroup(group.conditions[i])
                         ELSE MongoBuildCondition(group.conditions[i])]
       IN IF group.type = "AND" THEN LogicalDoc("$and", clauses)
          ELSE LogicalDoc("$or", clauses)

BuildFilter(query) ==
  LET andClauses ==
        (IF IsDefined(query.conditions)
         THEN [i \in 1..Len(Get(query.conditions)) |-> MongoBuildCondition(Get(query.conditions)[i])]
         ELSE <<>>)
        \o (IF IsDefined(query.logical)
            THEN [i \in 1..Len(Get(query.logical)) |-> MongoBuildLogicalGroup(Get(query.logical)[i])]
            ELSE <<>>)
  IN IF Len(andClauses) = 1 THEN andClauses[1]
     ELSE IF Len(andClauses) > 1 THEN LogicalDoc("$and", andClauses)
     ELSE EmptyDoc

\* Object.keys(filter).length
ObjectKeysLength(doc) == IF doc.k = "empty" THEN 0 ELSE 1

\* the $group stage's _id an object also for a single field
GroupId_SingleAsObject(query) ==
  IF IsDefined(query.groupBy) /\ Len(Get(query.groupBy)) > 0
  THEN [k |-> "object", fields |-> Get(query.groupBy)]
  ELSE [k |-> "null", fields |-> <<>>]

\* the $group stage's _id: null, "$field", or {field: "$field", ...}
GroupId(query) ==
  IF IsDefined(query.groupBy) /\ Len(Get(query.groupBy)) > 0
  THEN IF Len(Get(query.groupBy)) = 1
       THEN [k |-> "field", fields |-> Get(query.groupBy)]
       ELSE [k |-> "object", fields |-> Get(query.groupBy)]
  ELSE [k |-> "null", fields |-> <<>>]

\* one accumulator of the $group stage: outField: {$sum: 1} or {$func: "$field"}
GroupAccumulator(agg) ==
  LET outField == IF IsDefined(agg.alias) /\ Get(agg.alias) # ""
                  THEN Get(agg.alias)
                  ELSE agg.function \o "_" \o agg.field
  IN IF agg.function = "count"
     THEN [out |-> outField, acc |-> "$sum", constant |-> TRUE, field |-> ""]
     ELSE [out |-> outField, acc |-> "$" \o agg.function, constant |-> FALSE, field |-> agg.field]

BuildAggregatePipeline(query, filter) ==
  (IF ObjectKeysLength(filter) > 0 THEN <<[stage |-> "$match", filter |-> filter]>> ELSE <<>>)
  \o <<[stage |-> "$group", id |-> GroupId(query),
        accumulators |-> IF IsDefined(query.aggregations)
                         THEN [i \in 1..Len(Get(query.aggregations)) |->
                                 GroupAccumulator(Get(query.aggregations)[i])]
                         ELSE <<>>]>>
  \o (IF IsDefined(query.orderBy)
      THEN LET f == Get(query.orderBy).field
               grouped == IsDefined(query.groupBy)
                          /\ \E i \in 1..Len(Get(query.groupBy)) : Get(query.groupBy)[i] = f
               mappedField == IF grouped
                              THEN IF Len(Get(query.groupBy)) = 1 THEN "_id" ELSE "_id." \o f
                              ELSE f
           IN <<[stage |-> "$sort", field |-> mappedField,
                 direction |-> IF Get(query.orderBy).direction = "asc" THEN 1 ELSE 0 - 1]>>
      ELSE <<>>)
  \o (IF IsDefined(query.offset) THEN <<[stage |-> "$skip", n |-> Get(query.offset)]>> ELSE <<>>)
  \o (IF IsDefined(query.limit) THEN <<[stage |-> "$limit", n |-> Get(query.limit)]>> ELSE <<>>)

MongoPlanOf(query) ==
  LET filter == BuildFilter(query)
  IN IF query.type = "select"
     THEN IF IsDefined(query.aggregations) \/ IsDefined(query.groupBy)
          THEN [type |-> "mongo-pipeline", pipeline |-> BuildAggregatePipeline(query, filter)]
          ELSE [type |-> "mongo-query", filter |-> filter,
                options |-> [projection |-> query.select,
                             limit |-> query.limit,
                             skip |-> query.offset,
                             sort |-> IF IsDefined(query.orderBy)
                                      THEN Some([field |-> Get(query.orderBy).field,
                                                 direction |-> IF Get(query.orderBy).direction = "asc"
                                                               THEN 1 ELSE 0 - 1])
                                      ELSE Undefined]]
     ELSE [type |-> "mongo-query", filter |-> filter, data |-> query.data]

(***************************************************************************)
(* QueryBuilder.  conditions, logicalGroups and aggregations are arrays    *)
(* the builder owns and pushes to; build() puts the arrays themselves, not *)
(* copies, into the AST it returns.  A built AST is kept here as build()   *)
(* makes it, with Shared(name) standing for the builder's array of that    *)
(* name; ReadAST reads it against the builder as it is now.                *)
(***************************************************************************)
NewBuilder ==
  [mode |-> "select", conditions |-> <<>>, logicalGroups |-> <<>>, groupByFields |-> Undefined,
   aggregations |-> Undefined, data |-> Undefined, limitValue |-> Undefined,
   offsetValue |-> Undefined, orderByValue |-> Undefined, selectFields |-> Undefined]

insert(b, data) == [b EXCEPT !.mode = "insert", !.data = Some(data)]
update(b, data) == [b EXCEPT !.mode = "update", !.data = Some(data)]
\* delete() leaving the mode as it was
delete_ModeKept(b) == b
delete(b) == [b EXCEPT !.mode = "delete"]
groupBy(b, fields) == [b EXCEPT !.groupByFields = Some(fields)]
aggregate(b, func, field, alias) ==
  [b EXCEPT !.aggregations =
     Some(Append(IF IsDefined(@) THEN Get(@) ELSE <<>>, AggregationOp(func, field, alias)))]

Shared(name) == Some([shared |-> name])

build(b) ==
  QueryAST(b.mode,
           IF Len(b.conditions) # 0 THEN Shared("conditions") ELSE Undefined,
           IF Len(b.logicalGroups) # 0 THEN Shared("logicalGroups") ELSE Undefined,
           b.groupByFields,
           IF IsDefined(b.aggregations) /\ Len(Get(b.aggregations)) # 0
           THEN Shared("aggregations") ELSE Undefined,
           b.data, b.limitValue, b.offsetValue, b.orderByValue, b.selectFields)

\* the AST a holder of a sees when the builder it came from is b
ReadAST(a, b) ==
  [a EXCEPT !.conditions = IF IsDefined(@) THEN Some(b.conditions) ELSE Undefined,
            !.logical = IF IsDefined(@) THEN Some(b.logicalGroups) ELSE Undefined,
            !.aggregations = IF IsDefined(@) THEN b.aggregations ELSE Undefined]

(***************************************************************************)
(* validateQuery(query, capabilities): returns true or throws.             *)
(***************************************************************************)
Returned(v) == [state |-> "returned", value |-> v, error |-> "", message |-> ""]
Threw(e, msg) == [state |-> "threw", value |-> "", error |-> e, message |-> msg]
NotCalled == [state |-> "none", value |-> "", error |-> "", message |-> ""]

AdapterCapabilities == [supportsTransactions : BOOLEAN, supportsAggregation : BOOLEAN,
                        supportsJoins : BOOLEAN, supportsSchemaSync : BOOLEAN]

\* the validator with the groupBy test left out
ValidateQuery_AggregationsOnly(query, capabilities) ==
  IF ~capabilities.supportsAggregation
     /\ IsDefined(query.aggregations) /\ Len(Get(query.aggregations)) > 0
  THEN Threw("CapabilityError", "Adapter does not support aggregations")
  ELSE Returned("true")

ValidateQuery(query, capabilities) ==
  IF ~capabilities.supportsAggregation
  THEN IF IsDefined(query.aggregations) /\ Len(Get(query.aggregations)) > 0
       THEN Threw("CapabilityError", "Adapter does not support aggregations")
       ELSE IF IsDefined(query.groupBy) /\ Len(Get(query.groupBy)) > 0
            THEN Threw("CapabilityError", "Adapter does not support grouping")
            ELSE Returned("true")
  ELSE Returned("true")

(***************************************************************************)
(* Synqra: the adapters by name, the routing table, the observers, and     *)
(* SynqraQuery.execute up to its await and from it.                        *)
(***************************************************************************)
PostgresAdapter ==
  [name |-> "main-sql", kind |-> "postgres",
   capabilities |-> [supportsTransactions |-> TRUE, supportsAggregation |-> TRUE,
                     supportsJoins |-> TRUE, supportsSchemaSync |-> TRUE]]
MongoAdapter ==
  [name |-> "big-data-mongo", kind |-> "mongo",
   capabilities |-> [supportsTransactions |-> FALSE, supportsAggregation |-> TRUE,
                     supportsJoins |-> FALSE, supportsSchemaSync |-> TRUE]]
\* a PostgresAdapter whose supportsAggregation has been set to false
RestrictedAdapter ==
  [PostgresAdapter EXCEPT !.name = "restricted", !.capabilities.supportsAggregation = FALSE]
AdapterPool == {PostgresAdapter, MongoAdapter, RestrictedAdapter}

\* aggregate goes to replica, read to analytics
GetAdapterByIntent_NamesSwapped(registered, in) ==
  IF in = Some("aggregate") /\ "replica" \in DOMAIN registered THEN registered["replica"]
  ELSE IF in = Some("read") /\ "analytics" \in DOMAIN registered THEN registered["analytics"]
  ELSE registered["primary"]

GetAdapterByIntent(registered, in) ==
  IF in = Some("aggregate") /\ "analytics" \in DOMAIN registered THEN registered["analytics"]
  ELSE IF in = Some("read") /\ "replica" \in DOMAIN registered THEN registered["replica"]
  ELSE registered["primary"]

Event(e, adapter, observer) == [e |-> e, adapter |-> adapter, observer |-> observer]

\* execute with the validator called once adapter.execute has been started
ExecuteToAwait_ValidateLate(query, in, registered) ==
  LET adapter == GetAdapterByIntent(registered, Some(in))
      plan == IF adapter.kind = "mongo" THEN MongoPlanOf(query) ELSE PgPlanOf(query)
      valid == ValidateQuery(query, adapter.capabilities)
      first == <<Event("getAdapterByIntent", adapter.name, 0), Event("plan", adapter.name, 0),
                 Event("execute", adapter.name, 0), Event("validateQuery", adapter.name, 0)>>
  IN [adapter |-> adapter, plan |-> plan, events |-> first,
      pc |-> IF valid.state = "threw" THEN "done" ELSE "awaiting",
      outcome |-> IF valid.state = "threw" THEN valid ELSE NotCalled]

\* SynqraQuery.execute(query) from its first line to the await of adapter.execute, or to
\* the throw that ends it
ExecuteToAwait(query, in, registered) ==
  LET adapter == GetAdapterByIntent(registered, Some(in))
      plan == IF adapter.kind = "mongo" THEN MongoPlanOf(query) ELSE PgPlanOf(query)
      valid == ValidateQuery(query, adapter.capabilities)
      first == <<Event("getAdapterByIntent", adapter.name, 0), Event("plan", adapter.name, 0),
                 Event("validateQuery", adapter.name, 0)>>
      threw == valid.state = "threw"
  IN [adapter |-> adapter, plan |-> plan,
      events |-> IF threw THEN first ELSE Append(first, Event("execute", adapter.name, 0)),
      pc |-> IF threw THEN "done" ELSE "awaiting",
      outcome |-> IF threw THEN valid ELSE NotCalled]

RECURSIVE Observe(_)
\* Synqra.observe: the observers called, in order, up to the first that throws
Observe(obs) ==
  IF Len(obs) = 0 THEN <<>>
  ELSE IF obs[1].throws THEN <<obs[1]>>
  ELSE <<obs[1]>> \o Observe(Tail(obs))

(***************************************************************************)
(* The relational backend: client.query(text, values) parses the statement *)
(* and evaluates it over the table's rows.  WHERE is three-valued: a       *)
(* comparison with NULL is unknown ("U"), a row is selected when the       *)
(* predicate is true ("T"); text that does not parse is an error ("E").    *)
(***************************************************************************)
TokIs(t, i, s) == i <= Len(t) /\ t[i].k = "txt" /\ t[i].s = s
IsPh(t, i) == i <= Len(t) /\ t[i].k = "ph"
IsNum(t, i) == i <= Len(t) /\ t[i].k = "num"
SqlKeywords == {"SELECT", "FROM", "WHERE", "GROUP BY", "ORDER BY", "LIMIT", "OFFSET",
                "AND", "OR", "IN", "AS", "(", ")", ",", "*", "1=1", "1=0",
                "=", ">", "<", ">=", "<="}
IsName(t, i) == i <= Len(t) /\ t[i].k = "txt" /\ t[i].s \notin SqlKeywords
ParseError(t) == [e |-> [k |-> "err"], i |-> Len(t) + 1]

RECURSIVE ParsePhList(_, _, _)
\* $n, $m, ... ) starting at i
ParsePhList(t, i, acc) ==
  IF ~IsPh(t, i) THEN [ok |-> FALSE, phs |-> <<>>, i |-> Len(t) + 1]
  ELSE IF TokIs(t, i + 1, ",") THEN ParsePhList(t, i + 2, Append(acc, t[i].n))
  ELSE IF TokIs(t, i + 1, ")") THEN [ok |-> TRUE, phs |-> Append(acc, t[i].n), i |-> i + 2]
  ELSE [ok |-> FALSE, phs |-> <<>>, i |-> Len(t) + 1]

RECURSIVE ParseOr(_, _), ParseOrRest(_, _, _), ParseAnd(_, _), ParseAndRest(_, _, _), ParsePrimary(_, _)
ParsePrimary(t, i) ==
  IF TokIs(t, i, "(")
  THEN LET r == ParseOr(t, i + 1)
       IN IF TokIs(t, r.i, ")") THEN [e |-> r.e, i |-> r.i + 1] ELSE ParseError(t)
  ELSE IF TokIs(t, i, "1=1") THEN [e |-> [k |-> "const", b |-> "T"], i |-> i + 1]
  ELSE IF TokIs(t, i, "1=0") THEN [e |-> [k |-> "const", b |-> "F"], i |-> i + 1]
  ELSE IF ~IsName(t, i) THEN ParseError(t)
  ELSE IF TokIs(t, i + 1, "IN")
       THEN IF TokIs(t, i + 2, "(")
            THEN LET r == ParsePhList(t, i + 3, <<>>)
                 IN IF r.ok
                    THEN [e |-> [k |-> "in", field |-> t[i].s, phs |-> r.phs], i |-> r.i]
                    ELSE ParseError(t)
            ELSE ParseError(t)
  ELSE IF i + 1 <= Len(t) /\ t[i + 1].k = "txt" /\ t[i + 1].s \in {"=", ">", "<", ">=", "<="}
          /\ IsPh(t, i + 2)
       THEN [e |-> [k |-> "cmp", field |-> t[i].s, op |-> t[i + 1].s, ph |-> t[i + 2].n], i |-> i + 3]
  ELSE ParseError(t)

ParseAndRest(t, args, i) ==
  IF TokIs(t, i, "AND")
  THEN LET r == ParsePrimary(t, i + 1) IN ParseAndRest(t, Append(args, r.e), r.i)
  ELSE [e |-> IF Len(args) = 1 THEN args[1] ELSE [k |-> "and", args |-> args], i |-> i]

ParseAnd(t, i) == LET r == ParsePrimary(t, i) IN ParseAndRest(t, <<r.e>>, r.i)

ParseOrRest(t, args, i) ==
  IF TokIs(t, i, "OR")
  THEN LET r == ParseAnd(t, i + 1) IN ParseOrRest(t, Append(args, r.e), r.i)
  ELSE [e |-> IF Len(args) = 1 THEN args[1] ELSE [k |-> "or", args |-> args], i |-> i]

ParseOr(t, i) == LET r == ParseAnd(t, i) IN ParseOrRest(t, <<r.e>>, r.i)

SqlCompare(op, x, y) ==
  IF x = NULL \/ y = NULL THEN "U"
  ELSE IF (CASE op = "=" -> x = y
             [] op = ">" -> x > y
             [] op = "<" -> x < y
             [] op = ">=" -> x >= y
             [] op = "<=" -> x <= y) THEN "T" ELSE "F"

RECURSIVE SqlEval(_, _, _)
SqlEval(e, row, values) ==
  CASE e.k = "err" -> "E"
    [] e.k = "const" -> e.b
    [] e.k = "cmp" ->
         IF e.field \notin DOMAIN row \/ e.ph \notin 1..Len(values) THEN "E"
         ELSE SqlCompare(e.op, row[e.field], values[e.ph])
    [] e.k = "in" ->
         IF e.field \notin DOMAIN row \/ \E j \in 1..Len(e.phs) : e.phs[j] \notin 1..Len(values)
         THEN "E"
         ELSE LET rs == {SqlCompare("=", row[e.field], values[e.phs[j]]) : j \in 1..Len(e.phs)}
              IN IF "T" \in rs THEN "T" ELSE IF "U" \in rs THEN "U" ELSE "F"
    [] e.k = "and" ->
         LET rs == {SqlEval(e.args[j], row, values) : j \in 1..Len(e.args)}
         IN IF "E" \in rs THEN "E" ELSE IF "F" \in rs THEN "F"
            ELSE IF "U" \in rs THEN "U" ELSE "T"
    [] e.k = "or" ->
         LET rs == {SqlEval(e.args[j], row, values) : j \in 1..Len(e.args)}
         IN IF "E" \in rs THEN "E" ELSE IF "T" \in rs THEN "T"
            ELSE IF "U" \in rs THEN "U" ELSE "F"

RECURSIVE ParseNames(_, _, _)
\* name, name, ... starting at i
ParseNames(t, i, acc) ==
  IF ~IsName(t, i) THEN [ok |-> FALSE, names |-> <<>>, i |-> Len(t) + 1]
  ELSE IF TokIs(t, i + 1, ",") THEN ParseNames(t, i + 2, Append(acc, t[i].s))
  ELSE [ok |-> TRUE, names |-> Append(acc, t[i].s), i |-> i + 1]

RECURSIVE ParseItems(_, _, _)
\* the select list: *, or items name | FUNC ( name ) [AS alias] separated by commas
ParseItems(t, i, acc) ==
  LET item ==
        IF IsName(t, i) /\ TokIs(t, i + 1, "(") /\ IsName(t, i + 2) /\ TokIs(t, i + 3, ")")
        THEN IF TokIs(t, i + 4, "AS") /\ IsName(t, i + 5)
             THEN [ok |-> TRUE, i |-> i + 6,
                   it |-> [agg |-> TRUE, func |-> t[i].s, field |-> t[i + 2].s, name |-> t[i + 5].s]]
             ELSE [ok |-> TRUE, i |-> i + 4,
                   it |-> [agg |-> TRUE, func |-> t[i].s, field |-> t[i + 2].s, name |-> t[i].s]]
        ELSE IF IsName(t, i)
             THEN [ok |-> TRUE, i |-> i + 1,
                   it |-> [agg |-> FALSE, func |-> "", field |-> t[i].s, name |-> t[i].s]]
             ELSE [ok |-> FALSE, i |-> Len(t) + 1, it |-> [agg |-> FALSE]]
  IN IF ~item.ok THEN [ok |-> FALSE, items |-> <<>>, i |-> Len(t) + 1]
     ELSE IF TokIs(t, item.i, ",") THEN ParseItems(t, item.i + 1, Append(acc, item.it))
     ELSE [ok |-> TRUE, items |-> Append(acc, item.it), i |-> item.i]

\* SELECT <items> FROM <table> [WHERE e] [GROUP BY names] [ORDER BY name dir] [LIMIT n] [OFFSET n]
ParseSelect(t) ==
  LET items == IF TokIs(t, 2, "*") THEN [ok |-> TRUE, items |-> <<>>, i |-> 3]
               ELSE ParseItems(t, 2, <<>>)
      p0 == items.i + 2
      w == IF TokIs(t, p0, "WHERE")
           THEN LET r == ParseOr(t, p0 + 1) IN [where |-> Some(r.e), i |-> r.i]
           ELSE [where |-> Undefined, i |-> p0]
      g == IF TokIs(t, w.i, "GROUP BY") THEN ParseNames(t, w.i + 1, <<>>)
           ELSE [ok |-> TRUE, names |-> <<>>, i |-> w.i]
      o == IF TokIs(t, g.i, "ORDER BY")
           THEN IF IsName(t, g.i + 1) /\ (TokIs(t, g.i + 2, "ASC") \/ TokIs(t, g.i + 2, "DESC"))
                THEN [ok |-> TRUE, i |-> g.i + 3,
                      orderBy |-> Some([field |-> t[g.i + 1].s, desc |-> t[g.i + 2].s = "DESC"])]
                ELSE [ok |-> FALSE, i |-> Len(t) + 1, orderBy |-> Undefined]
           ELSE [ok |-> TRUE, i |-> g.i, orderBy |-> Undefined]
      l == IF TokIs(t, o.i, "LIMIT")
           THEN IF IsNum(t, o.i + 1) THEN [ok |-> TRUE, i |-> o.i + 2, n |-> Some(t[o.i + 1].n)]
                ELSE [ok |-> FALSE, i |-> Len(t) + 1, n |-> Undefined]
           ELSE [ok |-> TRUE, i |-> o.i, n |-> Undefined]
      f == IF TokIs(t, l.i, "OFFSET")
           THEN IF IsNum(t, l.i + 1) THEN [ok |-> TRUE, i |-> l.i + 2, n |-> Some(t[l.i + 1].n)]
                ELSE [ok |-> FALSE, i |-> Len(t) + 1, n |-> Undefined]
           ELSE [ok |-> TRUE, i |-> l.i, n |-> Undefined]
  IN [ok |-> TokIs(t, 1, "SELECT") /\ items.ok /\ TokIs(t, items.i, "FROM") /\ IsName(t, items.i + 1)
             /\ g.ok /\ o.ok /\ l.ok /\ f.ok /\ f.i = Len(t) + 1,
      items |-> items.items, where |-> w.where, groupBy |-> g.names,
      orderBy |-> o.orderBy, limit |-> l.n, offset |-> f.n]

(***************************************************************************)
(* What both backends do with rows once selected: sort on a field, skip,   *)
(* take.  Rows are records; a result is a sequence of rows.                *)
(***************************************************************************)
RECURSIVE SelectSeq3(_, _, _)
\* the rows of s, in order, that Keep (a set of indices) holds
SelectSeq3(s, i, Keep) ==
  IF i > Len(s) THEN <<>>
  ELSE (IF i \in Keep THEN <<s[i]>> ELSE <<>>) \o SelectSeq3(s, i + 1, Keep)

RECURSIVE InsertSorted(_, _, _, _)
InsertSorted(sorted, row, field, desc) ==
  IF Len(sorted) = 0 THEN <<row>>
  ELSE IF (IF desc THEN row[field] > sorted[1][field] ELSE row[field] < sorted[1][field])
       THEN <<row>> \o sorted
       ELSE <<sorted[1]>> \o InsertSorted(Tail(sorted), row, field, desc)

RECURSIVE SortBy(_, _, _)
SortBy(rows, field, desc) ==
  IF Len(rows) = 0 THEN <<>>
  ELSE InsertSorted(SortBy(SubSeq(rows, 1, Len(rows) - 1), field, desc), rows[Len(rows)], field, desc)

Skip(rows, n) == SubSeq(rows, n + 1, Len(rows))
Take(rows, n) == SubSeq(rows, 1, IF n < Len(rows) THEN n ELSE Len(rows))

\* client.query of a SELECT without grouping: the rows, or an error
SqlSelect(text, values, rows) ==
  LET st == ParseSelect(text)
      verdicts == [i \in 1..Len(rows) |->
                     IF IsDefined(st.where) THEN SqlEval(Get(st.where), rows[i], values) ELSE "T"]
      kept == SelectSeq3(rows, 1, {i \in 1..Len(rows) : verdicts[i] = "T"})
      sorted == IF IsDefined(st.orderBy)
                THEN SortBy(kept, Get(st.orderBy).field, Get(st.orderBy).desc)
                ELSE kept
      skipped == IF IsDefined(st.offset) THEN Skip(sorted, Get(st.offset)) ELSE sorted
      taken == IF IsDefined(st.limit) THEN Take(skipped, Get(st.limit)) ELSE skipped
  IN IF ~st.ok \/ \E i \in 1..Len(rows) : verdicts[i] = "E"
     THEN [ok |-> FALSE, rows |-> <<>>]
     ELSE [ok |-> TRUE, rows |-> taken]

(***************************************************************************)
(* The document backend: collection.find(filter) with the plan's options.  *)
(* A comparison never matches a null field; {field: value} and $in match   *)
(* on equality.                                                            *)
(***************************************************************************)
RECURSIVE MongoMatch(_, _)
MongoMatch(doc, row) ==
  CASE doc.k = "empty" -> TRUE
    [] doc.k = "cmp" ->
         LET x == IF doc.field \in DOMAIN row THEN row[doc.field] ELSE NULL
             y == doc.value.items
         IN (CASE doc.op = "eq" -> x = y[1]
               [] doc.op = "$gt" -> x # NULL /\ x > y[1]
               [] doc.op = "$lt" -> x # NULL /\ x < y[1]
               [] doc.op = "$gte" -> x # NULL /\ x >= y[1]
               [] doc.op = "$lte" -> x # NULL /\ x <= y[1]
               [] doc.op = "$in" -> \E j \in 1..Len(y) : y[j] = x)
    [] doc.k = "$and" -> \A j \in 1..Len(doc.clauses) : MongoMatch(doc.clauses[j], row)
    [] doc.k = "$or" -> \E j \in 1..Len(doc.clauses) : MongoMatch(doc.clauses[j], row)

MongoFind(plan, rows) ==
  LET kept == SelectSeq3(rows, 1, {i \in 1..Len(rows) : MongoMatch(plan.filter, rows[i])})
      sorted == IF IsDefined(plan.options.sort)
                THEN SortBy(kept, Get(plan.options.sort).field, Get(plan.options.sort).direction < 0)
                ELSE kept
      skipped == IF IsDefined(plan.options.skip) THEN Skip(sorted, Get(plan.options.skip)) ELSE sorted
      \* cursor.limit(0) is the driver's "no limit"
      taken == IF IsDefined(plan.options.limit) /\ Get(plan.options.limit) # 0
               THEN Take(skipped, Get(plan.options.limit))
               ELSE skipped
  IN [ok |-> TRUE, rows |-> taken]

(***************************************************************************)
(* Grouped selects.  Both backends partition the selected rows by the      *)
(* values of the grouping fields (one group of all rows when there are     *)
(* none) and fold each group.  SQL aggregates skip NULL: COUNT(f) counts   *)
(* the rows whose f is not NULL, SUM, MIN and MAX of no value are NULL.    *)
(* In a $group stage {$sum: 1} adds 1 per document, {$sum: "$f"} adds the  *)
(* numeric values (0 when there are none), $min and $max skip null.        *)
(***************************************************************************)
RECURSIVE NonNull(_, _)
\* the values of field f in rows that are not null
NonNull(rows, f) ==
  IF Len(rows) = 0 THEN <<>>
  ELSE (IF rows[1][f] # NULL THEN <<rows[1][f]>> ELSE <<>>) \o NonNull(Tail(rows), f)

RECURSIVE Fold(_, _)
Fold(fn, xs) ==
  IF Len(xs) = 1 THEN xs[1]
  ELSE LET r == Fold(fn, Tail(xs))
       IN CASE fn = "sum" -> xs[1] + r
            [] fn = "min" -> IF xs[1] < r THEN xs[1] ELSE r
            [] fn = "max" -> IF xs[1] > r THEN xs[1] ELSE r

GroupKey(row, fields) == [j \in 1..Len(fields) |-> row[fields[j]]]
GroupKeys(rows, fields) == {GroupKey(rows[i], fields) : i \in 1..Len(rows)}
GroupMembers(rows, fields, key) ==
  SelectSeq3(rows, 1, {i \in 1..Len(rows) : GroupKey(rows[i], fields) = key})

SqlAggregate(func, field, members) ==
  LET xs == NonNull(members, field)
  IN CASE func = "COUNT" -> Len(xs)
       [] func = "SUM" -> IF Len(xs) = 0 THEN NULL ELSE Fold("sum", xs)
       [] func = "MIN" -> IF Len(xs) = 0 THEN NULL ELSE Fold("min", xs)
       [] func = "MAX" -> IF Len(xs) = 0 THEN NULL ELSE Fold("max", xs)

\* client.query of a SELECT with aggregates: the set of groups, each with its key and its
\* aggregate values in select-list order
SqlSelectGroups(text, values, rows) ==
  LET st == ParseSelect(text)
      verdicts == [i \in 1..Len(rows) |->
                     IF IsDefined(st.where) THEN SqlEval(Get(st.where), rows[i], values) ELSE "T"]
      kept == SelectSeq3(rows, 1, {i \in 1..Len(rows) : verdicts[i] = "T"})
      aggs == SelectSeq3(st.items, 1, {i \in 1..Len(st.items) : st.items[i].agg})
      keys == IF Len(st.groupBy) = 0 THEN {<<>>} ELSE GroupKeys(kept, st.groupBy)
  IN IF ~st.ok \/ \E i \in 1..Len(rows) : verdicts[i] = "E"
     THEN [ok |-> FALSE, groups |-> {}]
     ELSE [ok |-> TRUE,
           groups |-> {[key |-> key,
                        values |-> [i \in 1..Len(aggs) |->
                                      SqlAggregate(aggs[i].func, aggs[i].field,
                                                   GroupMembers(kept, st.groupBy, key))]] :
                       key \in keys}]

MongoAccumulate(acc, members) ==
  IF acc.constant THEN Len(members)
  ELSE LET xs == NonNull(members, acc.field)
       IN CASE acc.acc = "$sum" -> IF Len(xs) = 0 THEN 0 ELSE Fold("sum", xs)
            [] acc.acc = "$min" -> IF Len(xs) = 0 THEN NULL ELSE Fold("min", xs)
            [] acc.acc = "$max" -> IF Len(xs) = 0 THEN NULL ELSE Fold("max", xs)

\* collection.aggregate of a pipeline [$match,] $group: the set of groups
MongoAggregate(pipeline, rows) ==
  LET matched == IF pipeline[1].stage = "$match"
                 THEN SelectSeq3(rows, 1, {i \in 1..Len(rows) : MongoMatch(pipeline[1].filter, rows[i])})
                 ELSE rows
      group == IF pipeline[1].stage = "$match" THEN pipeline[2] ELSE pipeline[1]
  IN [ok |-> TRUE,
      groups |-> {[key |-> key,
                   values |-> [i \in 1..Len(group.accumulators) |->
                                 MongoAccumulate(group.accumulators[i],
                                                 GroupMembers(matched, group.id.fields, key))]] :
                  key \in GroupKeys(matched, group.id.fields)}]

(***************************************************************************)
(* Inputs of the compiler specification.  The table holds one row per      *)
(* combination of a (1 or 2) and b (null, 1 or 2); k is a unique key.      *)
(* A filter has at most MaxNodes nodes (conditions and logical groups,     *)
(* nested to any depth the budget allows).                                 *)
(***************************************************************************)
MaxNodes == 3
MaxLimit == 2
MaxOffset == 2

FixtureRows ==
  <<[k |-> 1, a |-> 1, b |-> NULL], [k |-> 2, a |-> 2, b |-> 1], [k |-> 3, a |-> 1, b |-> 2],
    [k |-> 4, a |-> 2, b |-> NULL], [k |-> 5, a |-> 1, b |-> 1], [k |-> 6, a |-> 2, b |-> 2]>>

Operators == {"eq", "gt", "lt", "gte", "lte", "in"}
\* every flat condition over the fields a and b
AllConditions ==
  {Condition(f, op, Scalar(v)) : f \in {"a", "b"}, op \in Operators \ {"in"}, v \in {1, 2}}
  \cup {Condition(f, "in", Arr(s)) : f \in {"a", "b"}, s \in {<<>>, <<2>>, <<1, 2>>}}
\* the conditions used inside filters of several nodes
NestedConditions ==
  {Condition("a", "eq", Scalar(1)), Condition("b", "gt", Scalar(1)),
   Condition("a", "in", Arr(<<>>)), Condition("b", "in", Arr(<<1, 2>>))}

RECURSIVE Trees(_), Forests(_)
\* the logical conditions of exactly n nodes, and the lists of them of n nodes in all
Trees(n) ==
  (IF n = 1 THEN NestedConditions ELSE {})
  \cup (IF n >= 1 THEN {LogicalGroup(ty, cs) : ty \in {"AND", "OR"}, cs \in Forests(n - 1)} ELSE {})
Forests(n) ==
  IF n = 0 THEN {<<>>}
  ELSE UNION {{<<t>> \o f : t \in Trees(j), f \in Forests(n - j)} : j \in 1..n}

RECURSIVE GroupLists(_)
\* the lists of logical groups of n nodes in all
GroupLists(n) ==
  IF n = 0 THEN {<<>>}
  ELSE UNION {{<<LogicalGroup(ty, cs)>> \o f : ty \in {"AND", "OR"}, cs \in Forests(j - 1),
                                               f \in GroupLists(n - j)} : j \in 1..n}

RECURSIVE ConditionLists(_)
ConditionLists(n) ==
  IF n = 0 THEN {<<>>}
  ELSE {<<c>> \o f : c \in NestedConditions, f \in ConditionLists(n - 1)}

\* [conditions, logical] of at most n nodes
Filters(n) ==
  UNION {{[conditions |-> IF Len(cs) = 0 THEN Undefined ELSE Some(cs),
            logical |-> IF Len(gs) = 0 THEN Undefined ELSE Some(gs)] :
            cs \in ConditionLists(p[1]), gs \in GroupLists(p[2])} :
         p \in {q \in (0..n) \X (0..n) : q[1] + q[2] <= n}}

Datas == {<<[key |-> "a", value |-> 2]>>, <<[key |-> "b", value |-> 1], [key |-> "a", value |-> 2]>>}

\* filters of more nodes: where("b", "gt", 1).or([a = 1, a in []]) as the README has it,
\* an OR of ANDs, an AND of ORs under a top-level condition, and three levels of nesting
DeepFilters ==
  {[conditions |-> Some(<<Condition("b", "gt", Scalar(1))>>),
    logical |-> Some(<<LogicalGroup("OR", <<Condition("a", "eq", Scalar(1)),
                                            Condition("a", "in", Arr(<<>>))>>)>>)],
   [conditions |-> Undefined,
    logical |-> Some(<<LogicalGroup("OR",
                         <<LogicalGroup("AND", <<Condition("a", "eq", Scalar(1)),
                                                 Condition("b", "in", Arr(<<1, 2>>))>>),
                           LogicalGroup("AND", <<Condition("a", "eq", Scalar(2)),
                                                 Condition("b", "lt", Scalar(2))>>)>>)>>)],
   [conditions |-> Some(<<Condition("a", "lt", Scalar(2))>>),
    logical |-> Some(<<LogicalGroup("AND",
                         <<LogicalGroup("OR", <<Condition("b", "eq", Scalar(1)),
                                                Condition("k", "gte", Scalar(5))>>),
                           LogicalGroup("OR", <<Condition("b", "gte", Scalar(2)),
                                                Condition("k", "in", Arr(<<2, 3>>))>>)>>)>>)],
   [conditions |-> Undefined,
    logical |-> Some(<<LogicalGroup("AND",
                         <<Condition("k", "lte", Scalar(5)),
                           LogicalGroup("OR",
                             <<Condition("a", "eq", Scalar(1)),
                               LogicalGroup("AND", <<Condition("b", "gt", Scalar(1)),
                                                     Condition("k", "gt", Scalar(2))>>)>>)>>),
                       LogicalGroup("OR", <<Condition("a", "in", Arr(<<>>)),
                                            Condition("b", "eq", Scalar(2))>>)>>)]}

\* selects that vary the filter
FilterSelects ==
  {QueryAST("select", f.conditions, f.logical, Undefined, Undefined, Undefined,
            Undefined, Undefined, Undefined, Undefined) : f \in Filters(MaxNodes) \cup DeepFilters}
  \cup {QueryAST("select", Some(<<c>>), Undefined, Undefined, Undefined, Undefined,
                 Undefined, Undefined, Undefined, Undefined) : c \in AllConditions}
\* selects that vary orderBy, limit and offset
PagedSelects ==
  {QueryAST("select", cs, Undefined, Undefined, Undefined, Undefined, lim, off, ob, Undefined) :
     cs \in {Undefined, Some(<<Condition("a", "lte", Scalar(1))>>),
             Some(<<Condition("b", "in", Arr(<<1, 2>>))>>)},
     lim \in {Undefined} \cup {Some(n) : n \in 0..MaxLimit},
     off \in {Undefined} \cup {Some(n) : n \in 0..MaxOffset},
     ob \in {Undefined, Some([field |-> "k", direction |-> "asc"]),
             Some([field |-> "k", direction |-> "desc"])}}
\* updates and deletes over filters of fewer nodes
Writes ==
  {QueryAST("update", f.conditions, f.logical, Undefined, Undefined, Some(d),
            Undefined, Undefined, Undefined, Undefined) : f \in Filters(MaxNodes - 1), d \in Datas}
  \cup {QueryAST("delete", f.conditions, f.logical, Undefined, Undefined, Undefined,
                 Undefined, Undefined, Undefined, Undefined) : f \in Filters(MaxNodes - 1)}
  \cup {QueryAST("insert", Undefined, Undefined, Undefined, Undefined, Some(d),
                 Undefined, Undefined, Undefined, Undefined) : d \in Datas}

\* selects with aggregations, grouped on no field, one field or two
GroupedSelects ==
  LET ops == {AggregationOp(fn, f, Undefined) : fn \in {"count", "sum", "min", "max"}, f \in {"a", "b"}}
             \cup {AggregationOp("count", "b", Some("n"))}
  IN {QueryAST("select", cs, Undefined, gb, Some(aggs), Undefined, Undefined, Undefined, Undefined, Undefined) :
        cs \in {Undefined, Some(<<Condition("a", "eq", Scalar(1))>>)},
        gb \in {Undefined, Some(<<"a">>), Some(<<"b">>), Some(<<"a", "b">>)},
        aggs \in {<<x>> : x \in ops} \cup {<<x, y>> : x, y \in ops}}

\* an insert and updates whose data is absent
WritesWithoutData ==
  {QueryAST("insert", Undefined, Undefined, Undefined, Undefined, Undefined,
            Undefined, Undefined, Undefined, Undefined)}
  \cup {QueryAST("update", cs, Undefined, Undefined, Undefined, Undefined,
                 Undefined, Undefined, Undefined, Undefined) :
          cs \in {Undefined, Some(<<Condition("a", "eq", Scalar(1))>>)}}

\* selects with groupBy or aggregations, with and without a filter, orderBy, offset and limit
PipelineSelects ==
  {q \in {QueryAST("select", cs, Undefined, gb, aggs, Undefined, lim, off, ob, Undefined) :
            cs \in {Undefined, Some(<<Condition("a", "eq", Scalar(1))>>)},
            gb \in {Undefined, Some(<<>>), Some(<<"a">>), Some(<<"a", "b">>)},
            aggs \in {Undefined, Some(<<AggregationOp("count", "a", Some("n"))>>)},
            lim \in {Undefined, Some(0), Some(MaxLimit)},
            off \in {Undefined, Some(0), Some(1)},
            ob \in {Undefined, Some([field |-> "a", direction |-> "asc"]),
                    Some([field |-> "n", direction |-> "desc"])}} :
     IsDefined(q.groupBy) \/ IsDefined(q.aggregations)}

\* selects with a projection, aggregations, both or neither
ColumnSelects ==
  {QueryAST("select", Undefined, Undefined, gb, aggs, Undefined, Undefined, Undefined, Undefined, sel) :
     gb \in {Undefined, Some(<<"a">>)},
     aggs \in {Undefined, Some(<<AggregationOp("count", "a", Undefined)>>),
               Some(<<AggregationOp("sum", "b", Some("n")), AggregationOp("max", "a", Undefined)>>)},
     sel \in {Undefined, Some(<<"a">>), Some(<<"b", "a">>)}}

\* "in" with a value that is not an array: where("a", "in", v), alone, beside other
\* conditions and inside a logical group, in selects, an update and a delete
ScalarInFilters ==
  {[conditions |-> Some(<<Condition(f, "in", Scalar(v))>>), logical |-> Undefined] :
     f \in {"a", "b"}, v \in {1, 2}}
  \cup {[conditions |-> Some(<<Condition("b", "gt", Scalar(1)), Condition("a", "in", Scalar(2))>>),
          logical |-> Some(<<LogicalGroup("OR", <<Condition("b", "in", Scalar(1)),
                                                  Condition("a", "in", Arr(<<1, 2>>)),
                                                  Condition("a", "lt", Scalar(2))>>)>>)]}
ScalarInQueries ==
  {QueryAST(ty, f.conditions, f.logical, Undefined, Undefined,
            IF ty = "update" THEN Some(d) ELSE Undefined,
            Undefined, Undefined, Undefined, Undefined) :
     ty \in {"select", "update", "delete"}, f \in ScalarInFilters, d \in Datas}

CompilerInputs ==
  FilterSelects \cup PagedSelects \cup Writes \cup GroupedSelects \cup WritesWithoutData
  \cup PipelineSelects \cup ColumnSelects \cup ScalarInQueries

(***************************************************************************)
(* Migrations.  A ModelSchema holds its fields in Object.entries order,    *)
(* each defined by a type name or by an object with a type.  A relational  *)
(* operation is the statement planSync builds, kept by its parts; the      *)
(* relational database is the set of column names of each table that       *)
(* exists, the document database the set of its collection names.          *)
(***************************************************************************)
TableNames == {"users", "posts"}

\* a field definition: the type name itself (short) or {type: ...}
FieldDef(type, short) == [type |-> type, short |-> short]
Field(field, def) == [field |-> field, def |-> def]
ModelSchema(name, table, fields) == [name |-> name, table |-> table, fields |-> fields]

\* typeof def === "string" ? def : def.type
FieldTypeOf(def) == def.type

\* typeMap[fieldType] || "TEXT"
TypeMap(fieldType) ==
  CASE fieldType = "string" -> "VARCHAR(255)"
    [] fieldType = "number" -> "FLOAT"
    [] fieldType = "boolean" -> "BOOLEAN"
    [] fieldType = "date" -> "TIMESTAMP"
    [] fieldType = "object" -> "JSONB"
    [] fieldType = "array" -> "JSONB"
    [] OTHER -> "TEXT"

Column(field, type) == [field |-> field, type |-> type]
Operation(op, table, columns) == [op |-> op, table |-> table, columns |-> columns]
Log(adapter, what, field, table) == [adapter |-> adapter, what |-> what, field |-> field, table |-> table]

RECURSIVE PgCreateColumns(_)
\* the columns of CREATE TABLE after "id SERIAL PRIMARY KEY"
PgCreateColumns(fields) ==
  IF Len(fields) = 0 THEN <<>>
  ELSE (IF fields[1].field = "id" THEN <<>>
        ELSE <<Column(fields[1].field, TypeMap(FieldTypeOf(fields[1].def)))>>)
       \o PgCreateColumns(Tail(fields))

\* CREATE TABLE with the id column alone
PgCreateTable_IdOnly(model) ==
  Operation("CREATE TABLE", model.table, <<Column("id", "SERIAL PRIMARY KEY")>>)

PgCreateTable(model) ==
  Operation("CREATE TABLE", model.table,
            <<Column("id", "SERIAL PRIMARY KEY")>> \o PgCreateColumns(model.fields))

RECURSIVE PgAddColumns(_, _, _)
\* ALTER TABLE ... ADD COLUMN for every field that is not id and not an existing column
PgAddColumns(table, fields, existingColumns) ==
  IF Len(fields) = 0 THEN <<>>
  ELSE (IF fields[1].field = "id" \/ fields[1].field \in existingColumns THEN <<>>
        ELSE <<Operation("ADD COLUMN", table,
                         <<Column(fields[1].field, TypeMap(FieldTypeOf(fields[1].def)))>>)>>)
       \o PgAddColumns(table, Tail(fields), existingColumns)

\* one log line for the columns appended to a table, whatever their number
PgAddColumnLogs_OnePerTable(ops) ==
  IF Len(ops) = 0 THEN <<>>
  ELSE <<Log("Postgres", "appended column", ops[1].columns[1].field, ops[1].table)>>

PgAddColumnLogs(ops) ==
  [j \in 1..Len(ops) |-> Log("Postgres", "appended column", ops[j].columns[1].field, ops[j].table)]

\* client.query(op): what the relational database does with a migration statement
PgCommand(op, db) ==
  IF op.op = "CREATE TABLE"
  THEN IF IsDefined(db[op.table])
       THEN [ok |-> FALSE, error |-> "42P07 relation already exists", db |-> db]
       ELSE [ok |-> TRUE, error |-> "",
             db |-> [db EXCEPT ![op.table] = Some({op.columns[j].field : j \in 1..Len(op.columns)})]]
  ELSE IF ~IsDefined(db[op.table])
       THEN [ok |-> FALSE, error |-> "42P01 relation does not exist", db |-> db]
       ELSE IF op.columns[1].field \in Get(db[op.table])
            THEN [ok |-> FALSE, error |-> "42701 column already exists", db |-> db]
            ELSE [ok |-> TRUE, error |-> "",
                  db |-> [db EXCEPT ![op.table] = Some(Get(@) \cup {op.columns[1].field})]]

\* the bsonType planSync gives a field
BsonType(fieldType) ==
  CASE fieldType = "number" -> "double|int|long|decimal"
    [] fieldType = "boolean" -> "bool"
    [] fieldType = "date" -> "date|string"
    [] fieldType = "object" -> "object"
    [] fieldType = "array" -> "array"
    [] OTHER -> "string"

RECURSIVE MongoProperties(_)
MongoProperties(fields) ==
  IF Len(fields) = 0 THEN <<>>
  ELSE (IF fields[1].field = "id" THEN <<>>
        ELSE <<Column(fields[1].field, BsonType(FieldTypeOf(fields[1].def)))>>)
       \o MongoProperties(Tail(fields))

RECURSIVE MongoPlanSyncOf_CollModIfPresent(_, _)
\* planSync emitting collMod only for a collection that exists
MongoPlanSyncOf_CollModIfPresent(ms, existingNames) ==
  IF Len(ms) = 0 THEN [operations |-> <<>>, logs |-> <<>>]
  ELSE LET model == ms[1]
           create == ~(model.table \in existingNames)
           rest == MongoPlanSyncOf_CollModIfPresent(Tail(ms), existingNames)
       IN [operations |->
             (IF create THEN <<Operation("create", model.table, <<>>)>>
              ELSE <<Operation("collMod", model.table, MongoProperties(model.fields))>>)
             \o rest.operations,
           logs |->
             (IF create THEN <<Log("Mongo", "scheduled collection creation", "", model.table)>>
              ELSE <<Log("Mongo", "mapped $jsonSchema validations", "", model.table)>>)
             \o rest.logs]

RECURSIVE MongoPlanSyncOf(_, _)
\* MongoAdapter.planSync from the names listCollections returned: [operations, logs]
MongoPlanSyncOf(ms, existingNames) ==
  IF Len(ms) = 0 THEN [operations |-> <<>>, logs |-> <<>>]
  ELSE LET model == ms[1]
           create == ~(model.table \in existingNames)
           rest == MongoPlanSyncOf(Tail(ms), existingNames)
       IN [operations |->
             (IF create THEN <<Operation("create", model.table, <<>>)>> ELSE <<>>)
             \o <<Operation("collMod", model.table, MongoProperties(model.fields))>>
             \o rest.operations,
           logs |->
             (IF create THEN <<Log("Mongo", "scheduled collection creation", "", model.table)>>
              ELSE <<>>)
             \o <<Log("Mongo", "mapped $jsonSchema validations", "", model.table)>>
             \o rest.logs]

\* db.command(op): what the document database does with a migration command
MongoCommand(op, names) ==
  IF op.op = "create"
  THEN IF op.table \in names
       THEN [ok |-> FALSE, error |-> "48 NamespaceExists", names |-> names]
       ELSE [ok |-> TRUE, error |-> "", names |-> names \cup {op.table}]
  ELSE IF op.table \in names
       THEN [ok |-> TRUE, error |-> "", names |-> names]
       ELSE [ok |-> FALSE, error |-> "26 NamespaceNotFound", names |-> names]

\* the error of a statement or command the backend could not be reached for
Unreachable == "ECONNREFUSED"

(***************************************************************************)
(* The state each specification leaves alone.                              *)
(***************************************************************************)
CompilerIdle ==
  /\ ast = QueryAST("select", Undefined, Undefined, Undefined, Undefined, Undefined,
                    Undefined, Undefined, Undefined, Undefined)
  /\ pgPlan = Undefined
  /\ mongoPlan = Undefined

ValidatorIdle ==
  /\ vQuery = QueryAST("select", Undefined, Undefined, Undefined, Undefined, Undefined,
                       Undefined, Undefined, Undefined, Undefined)
  /\ vCaps = [supportsTransactions |-> FALSE, supportsAggregation |-> FALSE,
              supportsJoins |-> FALSE, supportsSchemaSync |-> FALSE]
  /\ vResult = NotCalled

BuilderIdle ==
  /\ qb = [calls |-> 0, b |-> NewBuilder]
  /\ built = <<>>

ResolverIdle ==
  /\ intent = Undefined
  /\ resolved = Undefined

\* new SynqraQuery(db, table)
NewSynqraQuery == [builder |-> NewBuilder, forcedIntent |-> Undefined]

NoRun ==
  [pc |-> "idle", query |-> Undefined, intent |-> "", adapter |-> Undefined, plan |-> Undefined,
   completed |-> FALSE, outcome |-> NotCalled, registered |-> <<>>]

RouterIdle ==
  /\ observers = <<>>
  /\ sq = NewSynqraQuery
  /\ run = NoRun
  /\ events = <<>>

\* no transaction has been started
NoTx ==
  [pc |-> "idle", calls |-> <<>>, begin |-> "none", callback |-> "none", commit |-> "none",
   rollback |-> "none", err |-> "", outcome |-> NotCalled]

TxIdle == tx = NoTx

SyncRuns == {1, 2}

\* no sync() or planSync() has been called
NoSync ==
  [call |-> "", adapter |-> "", pc |-> "idle", m |-> 1, type |-> "", operations |-> <<>>,
   logs |-> <<>>, i |-> 1, faulted |-> FALSE, afterSync |-> FALSE, outcome |-> NotCalled]

SyncIdle ==
  /\ models = <<>>
  /\ tables = [t \in TableNames |-> Undefined]
  /\ collections = {}
  /\ syncs = [r \in SyncRuns |-> NoSync]

AggIdle ==
  /\ aggQuery = QueryAST("select", Undefined, Undefined, Undefined, Undefined, Undefined,
                         Undefined, Undefined, Undefined, Undefined)
  /\ aggDocs = <<>>
  /\ aggOut = Undefined

(***************************************************************************)
(* The compiler specification: an AST, and each adapter's plan() of it.    *)
(***************************************************************************)
InitCompiler ==
  /\ ast \in CompilerInputs
  /\ pgPlan = Undefined
  /\ mongoPlan = Undefined
  /\ adapters = [n \in {"primary"} |-> PostgresAdapter]
  /\ ValidatorIdle /\ BuilderIdle /\ ResolverIdle /\ RouterIdle /\ TxIdle /\ SyncIdle /\ AggIdle

\* PostgresAdapter.plan(query)
PgPlan ==
  /\ pgPlan = Undefined
  /\ pgPlan' = Some(PgPlanCall(ast))
  /\ UNCHANGED <<ast, mongoPlan, validatorVars, builderVars, resolverVars, routerVars, txVars, syncVars, aggVars>>

\* MongoAdapter.plan(query)
MongoPlan ==
  /\ mongoPlan = Undefined
  /\ mongoPlan' = Some(MongoPlanOf(ast))
  /\ UNCHANGED <<ast, pgPlan, validatorVars, builderVars, resolverVars, routerVars, txVars, syncVars, aggVars>>

NextCompiler == PgPlan \/ MongoPlan

SpecCompiler == InitCompiler /\ [][NextCompiler]_vars

(***************************************************************************)
(* The validator specification: any AST kind with aggregations and groupBy *)
(* absent, empty or non-empty, against any capability record.              *)
(***************************************************************************)
ValidatorQueries ==
  {QueryAST(ty, Undefined, Undefined, gb, aggs, Undefined, Undefined, Undefined, Undefined, Undefined) :
     ty \in {"select", "insert", "update", "delete"},
     gb \in {Undefined, Some(<<>>), Some(<<"a">>), Some(<<"a", "b">>)},
     aggs \in {Undefined, Some(<<>>), Some(<<AggregationOp("count", "a", Undefined)>>),
               Some(<<AggregationOp("sum", "b", Some("n")), AggregationOp("max", "a", Undefined)>>)}}

InitValidator ==
  /\ vQuery \in ValidatorQueries
  /\ vCaps \in AdapterCapabilities
  /\ vResult = NotCalled
  /\ adapters = [n \in {"primary"} |-> PostgresAdapter]
  /\ CompilerIdle /\ BuilderIdle /\ ResolverIdle /\ RouterIdle /\ TxIdle /\ SyncIdle /\ AggIdle

\* validateQuery(vQuery, vCaps)
Validate ==
  /\ vResult = NotCalled
  /\ vResult' = ValidateQuery(vQuery, vCaps)
  /\ UNCHANGED <<vQuery, vCaps, compilerVars, builderVars, resolverVars, routerVars, txVars, syncVars, aggVars>>

NextValidator == Validate

SpecValidator == InitValidator /\ [][NextValidator]_vars

(***************************************************************************)
(* The builder specification: one QueryBuilder, up to MaxCalls calls of    *)
(* its methods in any order.  built holds every AST build() returned, as   *)
(* returned (ast) and as it read when returned (returned).                 *)
(***************************************************************************)
MaxCalls == 3

InitBuilder ==
  /\ BuilderIdle
  /\ adapters = [n \in {"primary"} |-> PostgresAdapter]
  /\ CompilerIdle /\ ValidatorIdle /\ ResolverIdle /\ RouterIdle /\ TxIdle /\ SyncIdle /\ AggIdle

\* what every call of a chained method does, the method making b2 of the builder
Chain(b2) ==
  /\ qb.calls < MaxCalls
  /\ qb' = [calls |-> qb.calls + 1, b |-> b2]
  /\ UNCHANGED <<built, compilerVars, validatorVars, resolverVars, routerVars, txVars, syncVars, aggVars>>

BuilderWhere ==
  \E c \in {Condition("a", "eq", Scalar(1)), Condition("b", "in", Arr(<<1, 2>>))} :
    Chain([qb.b EXCEPT !.conditions = Append(@, c)])

BuilderOr ==
  \E cs \in {<<Condition("a", "eq", Scalar(1)), Condition("b", "gt", Scalar(1))>>} :
    Chain([qb.b EXCEPT !.logicalGroups = Append(@, LogicalGroup("OR", cs))])

BuilderAnd ==
  \E cs \in {<<Condition("a", "eq", Scalar(1)), Condition("b", "gt", Scalar(1))>>} :
    Chain([qb.b EXCEPT !.logicalGroups = Append(@, LogicalGroup("AND", cs))])

BuilderLimit == \E n \in {0, 2} : Chain([qb.b EXCEPT !.limitValue = Some(n)])

BuilderOffset == \E n \in {0, 1} : Chain([qb.b EXCEPT !.offsetValue = Some(n)])

BuilderPaginate ==
  \E page \in {0, 1, 2}, pageSize \in {2} :
    Chain([qb.b EXCEPT !.limitValue = Some(pageSize), !.offsetValue = Some((page - 1) * pageSize)])

BuilderOrderBy ==
  \E direction \in {"asc", "desc"} :
    Chain([qb.b EXCEPT !.orderByValue = Some([field |-> "k", direction |-> direction])])

BuilderSelect == \E fields \in {<<"a">>, <<"a", "b">>} : Chain([qb.b EXCEPT !.selectFields = Some(fields)])

BuilderInsert == \E data \in Datas : Chain(insert(qb.b, data))

BuilderUpdate == \E data \in Datas : Chain(update(qb.b, data))

BuilderDelete == Chain(delete(qb.b))

BuilderGroupBy == \E fields \in {<<>>, <<"a">>} : Chain(groupBy(qb.b, fields))

\* count, sum, avg, min and max
BuilderAggregate ==
  \E func \in {"count", "sum", "avg", "min", "max"}, alias \in {Undefined, Some("n")} :
    Chain(aggregate(qb.b, func, "b", alias))

BuilderBuild ==
  /\ qb.calls < MaxCalls
  /\ qb' = [qb EXCEPT !.calls = @ + 1]
  /\ built' = Append(built, [ast |-> build(qb.b), returned |-> ReadAST(build(qb.b), qb.b)])
  /\ UNCHANGED <<compilerVars, validatorVars, resolverVars, routerVars, txVars, syncVars, aggVars>>

NextBuilder ==
  \/ BuilderWhere \/ BuilderOr \/ BuilderAnd \/ BuilderLimit \/ BuilderOffset \/ BuilderPaginate
  \/ BuilderOrderBy \/ BuilderSelect \/ BuilderInsert \/ BuilderUpdate \/ BuilderDelete
  \/ BuilderGroupBy \/ BuilderAggregate \/ BuilderBuild

SpecBuilder == InitBuilder /\ [][NextBuilder]_vars

(***************************************************************************)
(* The resolver specification: getAdapterByIntent for any registration     *)
(* that holds primary and any intent, absent included.                     *)
(***************************************************************************)
Registrations ==
  UNION {[names -> AdapterPool] :
           names \in {ns \in SUBSET {"primary", "replica", "analytics", "cache"} : "primary" \in ns}}

InitResolver ==
  /\ adapters \in Registrations
  /\ intent \in {Undefined, Some("read"), Some("write"), Some("aggregate"), Some("report")}
  /\ resolved = Undefined
  /\ CompilerIdle /\ ValidatorIdle /\ BuilderIdle /\ RouterIdle /\ TxIdle /\ SyncIdle /\ AggIdle

\* db.getAdapterByIntent(intent)
Resolve ==
  /\ resolved = Undefined
  /\ resolved' = Some(GetAdapterByIntent(adapters, intent))
  /\ UNCHANGED <<intent, compilerVars, validatorVars, builderVars, routerVars, txVars, syncVars, aggVars>>

NextResolver == Resolve

SpecResolver == InitResolver /\ [][NextResolver]_vars

(***************************************************************************)
(* The router specification: a Synqra made with any adapter as primary;    *)
(* adapters and observers are registered at any time, also while a query   *)
(* awaits its backend; queries are made from a SynqraQuery one at a time.  *)
(* An observer is a callback that returns or throws.  run and events keep  *)
(* the last execution until the next call is made on the Synqra or on the  *)
(* SynqraQuery.                                                            *)
(***************************************************************************)
MaxObservers == 2
MaxAggregations == 1

InitRouter ==
  /\ adapters \in {[n \in {"primary"} |-> a] : a \in {PostgresAdapter, RestrictedAdapter}}
  /\ RouterIdle
  /\ CompilerIdle /\ ValidatorIdle /\ BuilderIdle /\ ResolverIdle /\ TxIdle /\ SyncIdle /\ AggIdle

\* a call that is not part of the execution in progress: a finished execution is forgotten
Aside ==
  /\ run' = IF run.pc = "done" THEN NoRun ELSE run
  /\ events' = IF run.pc = "done" THEN <<>> ELSE events
  /\ UNCHANGED <<compilerVars, validatorVars, builderVars, resolverVars, txVars, syncVars, aggVars>>

\* db.addAdapter(name, adapter)
AddAdapter ==
  \E name \in {"primary", "replica", "analytics"}, a \in {PostgresAdapter, RestrictedAdapter} :
    /\ adapters' = [n \in DOMAIN adapters \cup {name} |-> IF n = name THEN a ELSE adapters[n]]
    /\ adapters' # adapters
    /\ Aside
    /\ UNCHANGED <<observers, sq>>

\* db.addObserver(observer)
AddObserver ==
  \E throws \in BOOLEAN :
    /\ Len(observers) < MaxObservers
    /\ observers' = Append(observers, [id |-> Len(observers) + 1, throws |-> throws])
    /\ Aside
    /\ UNCHANGED <<adapters, sq>>

\* db.from(table)
From ==
  /\ run.pc # "awaiting"
  /\ sq # NewSynqraQuery
  /\ sq' = NewSynqraQuery
  /\ Aside
  /\ UNCHANGED <<adapters, observers>>

\* query.intent(val)
Intent ==
  \E val \in {"read", "write", "aggregate"} :
    /\ run.pc # "awaiting"
    /\ sq.forcedIntent # Some(val)
    /\ sq' = [sq EXCEPT !.forcedIntent = Some(val)]
    /\ Aside
    /\ UNCHANGED <<adapters, observers>>

\* query.count(field)
Count ==
  /\ run.pc # "awaiting"
  /\ Len(ListOf(sq.builder.aggregations)) < MaxAggregations
  /\ sq' = [sq EXCEPT !.builder = aggregate(@, "count", "a", Undefined)]
  /\ Aside
  /\ UNCHANGED <<adapters, observers>>

\* find, insert, update and delete once the builder is b2: build, set the intent, execute
\* as far as the await
Terminal(b2, default) ==
  \E in \in {IF IsDefined(sq.forcedIntent) THEN Get(sq.forcedIntent) ELSE default} :
    \E query \in {ReadAST(build(b2), b2)} :
      \E r \in {ExecuteToAwait(query, in, adapters)} :
        /\ run.pc # "awaiting"
        /\ sq' = [sq EXCEPT !.builder = b2]
        /\ run' = [pc |-> r.pc, query |-> Some(query), intent |-> in,
                   adapter |-> Some(r.adapter), plan |-> Some(r.plan), completed |-> FALSE,
                   outcome |-> r.outcome, registered |-> <<>>]
        /\ events' = r.events
        /\ UNCHANGED <<adapters, observers, compilerVars, validatorVars, builderVars,
                       resolverVars, txVars, syncVars, aggVars>>

Find == Terminal(sq.builder, "read")

Insert == \E data \in {<<[key |-> "a", value |-> 2]>>} : Terminal(insert(sq.builder, data), "write")

Update == \E data \in {<<[key |-> "a", value |-> 2]>>} : Terminal(update(sq.builder, data), "write")

Delete == Terminal(delete(sq.builder), "write")

\* adapter.execute(query) resolves: execute goes on to db.observe and returns the result
ExecuteResolves ==
  LET called == Observe(observers)
      thrown == Len(called) > 0 /\ called[Len(called)].throws
  IN /\ run.pc = "awaiting"
     /\ events' = events \o [i \in 1..Len(called) |->
                               Event("observer", Get(run.adapter).name, called[i].id)]
     /\ run' = [run EXCEPT !.pc = "done", !.completed = TRUE, !.registered = observers,
                           !.outcome = IF thrown THEN Threw("Error", "observer")
                                       ELSE Returned("result")]
     /\ UNCHANGED <<adapters, observers, sq, compilerVars, validatorVars, builderVars, resolverVars, txVars, syncVars, aggVars>>

\* adapter.execute(query) rejects: the error leaves execute
ExecuteRejects ==
  /\ run.pc = "awaiting"
  /\ run' = [run EXCEPT !.pc = "done", !.outcome = Threw("Error", "backend")]
  /\ UNCHANGED <<adapters, observers, sq, events, compilerVars, validatorVars, builderVars, resolverVars, txVars, syncVars, aggVars>>

NextRouter ==
  \/ AddAdapter \/ AddObserver \/ From \/ Intent \/ Count
  \/ Find \/ Insert \/ Update \/ Delete
  \/ ExecuteResolves \/ ExecuteRejects

SpecRouter == InitRouter /\ [][NextRouter]_vars

(***************************************************************************)
(* The transaction specification: Synqra.transaction(callback) over any    *)
(* registration.  Each await of the call is settled by a step of its own:  *)
(* the promise resolves or rejects.  PostgresAdapter's begin, commit and   *)
(* rollback send a statement and reject when client.query rejects;         *)
(* MongoAdapter's are empty async functions and always resolve.            *)
(***************************************************************************)
Call(op, adapter) == [op |-> op, adapter |-> adapter]

\* whether begin(), commit() and rollback() of the adapter can reject
StatementCanReject(adapter) == adapter.kind = "postgres"

Settlements(adapter) == IF StatementCanReject(adapter) THEN {"resolved", "rejected"} ELSE {"resolved"}

\* the adapter a read is routed to taken as the transaction's adapter
TxPrimary_ByReadIntent == GetAdapterByIntent(adapters, Some("read"))

\* const primary = this.getAdapterByIntent("write")
TxPrimary == GetAdapterByIntent(adapters, Some("write"))

\* the queries a callback runs at most
MaxCallbackQueries == 2

InitTransaction ==
  /\ adapters \in Registrations
  /\ TxIdle
  /\ CompilerIdle /\ ValidatorIdle /\ BuilderIdle /\ ResolverIdle /\ RouterIdle /\ SyncIdle
  /\ AggIdle

TxUnchanged ==
  UNCHANGED <<compilerVars, validatorVars, builderVars, resolverVars, routerVars, syncVars, aggVars>>

\* the catch block up to its await: primary.rollback() is called, err is kept to be thrown
TxCatch(t, err) ==
  [t EXCEPT !.pc = "rollback", !.err = err, !.calls = Append(@, Call("rollback", TxPrimary.name))]

\* db.transaction(callback) up to its first await: primary.begin() is called
Transaction ==
  /\ tx.pc = "idle"
  /\ tx' = [tx EXCEPT !.pc = "begin", !.calls = <<Call("begin", TxPrimary.name)>>]
  /\ TxUnchanged

\* primary.begin() settles: the callback is called, or the catch block is entered
BeginSettles ==
  \E s \in Settlements(TxPrimary) :
    /\ tx.pc = "begin"
    /\ tx' = IF s = "resolved"
             THEN [tx EXCEPT !.begin = s, !.pc = "callback",
                             !.calls = Append(@, Call("callback", "this"))]
             ELSE TxCatch([tx EXCEPT !.begin = s], "begin")
    /\ TxUnchanged

\* inside the callback, a query made from tx.from(...) reaches adapter.execute of the
\* adapter its intent is routed to
CallbackQuery ==
  \E in \in {"read", "write", "aggregate"} :
    /\ tx.pc = "callback"
    /\ Len(SelectSeq3(tx.calls, 1, {j \in 1..Len(tx.calls) : tx.calls[j].op = "execute"}))
         < MaxCallbackQueries
    /\ tx' = [tx EXCEPT !.calls = Append(@, Call("execute", GetAdapterByIntent(adapters, Some(in)).name))]
    /\ TxUnchanged

\* callback(this) settles: primary.commit() is called, or the catch block is entered
CallbackSettles ==
  \E s \in {"resolved", "rejected"} :
    /\ tx.pc = "callback"
    /\ tx' = IF s = "resolved"
             THEN [tx EXCEPT !.callback = s, !.pc = "commit",
                             !.calls = Append(@, Call("commit", TxPrimary.name))]
             ELSE TxCatch([tx EXCEPT !.callback = s], "callback")
    /\ TxUnchanged

\* primary.commit() settles: transaction returns, or the catch block is entered
CommitSettles ==
  \E s \in Settlements(TxPrimary) :
    /\ tx.pc = "commit"
    /\ tx' = IF s = "resolved"
             THEN [tx EXCEPT !.commit = s, !.pc = "done", !.outcome = Returned("undefined")]
             ELSE TxCatch([tx EXCEPT !.commit = s], "commit")
    /\ TxUnchanged

\* primary.rollback() settles: err is thrown, or the rollback's own error leaves the call
RollbackSettles ==
  \E s \in Settlements(TxPrimary) :
    /\ tx.pc = "rollback"
    /\ tx' = [tx EXCEPT !.rollback = s, !.pc = "done",
                        !.outcome = IF s = "resolved" THEN Threw("Error", tx.err)
                                    ELSE Threw("Error", "rollback")]
    /\ TxUnchanged

NextTransaction ==
  Transaction \/ BeginSettles \/ CallbackQuery \/ CallbackSettles \/ CommitSettles
  \/ RollbackSettles

SpecTransaction == InitTransaction /\ [][NextTransaction]_vars

(***************************************************************************)
(* The migration specification: sync(models) and planSync(models) of a     *)
(* PostgresAdapter and of a MongoAdapter, two calls at a time, each await  *)
(* of a call a step of its own.  A statement or command either reaches the *)
(* backend, which applies it or answers with a conflict, or fails because  *)
(* the backend cannot be reached.                                          *)
(***************************************************************************)
SchemaSets ==
  {<<ModelSchema("User", "users", <<Field("name", FieldDef("string", TRUE)),
                                    Field("age", FieldDef("number", FALSE))>>)>>,
   <<ModelSchema("User", "users", <<Field("id", FieldDef("number", TRUE)),
                                    Field("name", FieldDef("string", TRUE))>>),
     ModelSchema("Post", "posts", <<Field("title", FieldDef("string", FALSE)),
                                    Field("at", FieldDef("date", TRUE))>>)>>,
   <<ModelSchema("User", "users", <<Field("name", FieldDef("string", TRUE))>>),
     ModelSchema("user", "users", <<Field("age", FieldDef("number", TRUE))>>)>>,
   <<ModelSchema("Post", "posts", <<Field("meta", FieldDef("object", FALSE)),
                                    Field("ok", FieldDef("boolean", TRUE)),
                                    Field("note", FieldDef("text", TRUE))>>)>>}

\* db.model(name, definition): name.toLowerCase() + "s"
TableOf(name) ==
  CASE name \in {"User", "user"} -> "users"
    [] name \in {"Post", "post"} -> "posts"

\* the columns the models declare for a table
DeclaredColumns(ms, table) ==
  UNION {{ms[j].fields[k].field : k \in 1..Len(ms[j].fields)} :
           j \in {n \in 1..Len(ms) : ms[n].table = table}}

\* every table absent, or present with any subset of the columns declared for it
PhysicalSchemas(ms) ==
  LET declared == UNION {DeclaredColumns(ms, t) : t \in TableNames}
  IN {db \in [TableNames -> {Undefined} \cup {Some(cs) : cs \in SUBSET declared}] :
        \A t \in TableNames : IsDefined(db[t]) => Get(db[t]) \subseteq DeclaredColumns(ms, t)}

InitSync ==
  /\ models \in SchemaSets
  /\ tables \in PhysicalSchemas(models)
  /\ collections \in SUBSET TableNames
  /\ syncs = [r \in SyncRuns |-> NoSync]
  /\ adapters = [n \in {"primary"} |-> PostgresAdapter]
  /\ CompilerIdle /\ ValidatorIdle /\ BuilderIdle /\ ResolverIdle /\ RouterIdle /\ TxIdle
  /\ AggIdle

SyncUnchanged ==
  UNCHANGED <<models, compilerVars, validatorVars, builderVars, resolverVars, routerVars, txVars, aggVars>>

\* sync() once planSync has returned: the loop over plan.operations ends or awaits the next
Applying(sr) ==
  IF sr.i > Len(sr.operations)
  THEN [sr EXCEPT !.pc = "done", !.outcome = Returned("undefined")]
  ELSE [sr EXCEPT !.pc = "apply"]

\* planSync returns its plan {type, operations, logs}, to the caller or to sync()
Planned(sr) ==
  LET plan == [sr EXCEPT !.type = IF sr.adapter = "postgres" THEN "sql" ELSE "mongo"]
  IN IF sr.call = "planSync" THEN [plan EXCEPT !.pc = "done", !.outcome = Returned("plan")]
     ELSE Applying(plan)

\* the relational planSync's loop over the models: the next model's table check, or the end
NextModel(sr) ==
  IF sr.m > Len(models) THEN Planned(sr) ELSE [sr EXCEPT !.pc = "tableCheck"]

\* adapter.sync(models) or adapter.planSync(models) is called, up to its first await
SyncStart(r) ==
  \E call \in {"sync", "planSync"}, adapter \in {"postgres", "mongo"} :
    LET sr == [NoSync EXCEPT !.call = call, !.adapter = adapter,
                  !.afterSync = \E r2 \in SyncRuns :
                                   /\ syncs[r2].call = "sync" /\ syncs[r2].adapter = adapter
                                   /\ syncs[r2].pc = "done" /\ syncs[r2].outcome.state = "returned"]
    IN /\ syncs[r].pc = "idle"
       /\ syncs' = [syncs EXCEPT ![r] = IF adapter = "postgres" THEN NextModel(sr)
                                        ELSE [sr EXCEPT !.pc = "listCollections"]]
       /\ UNCHANGED <<tables, collections>>
       /\ SyncUnchanged

\* the relational planSync's query of information_schema.tables returns
PgTableCheck(r) ==
  LET sr == syncs[r]
      model == models[sr.m]
  IN /\ sr.pc = "tableCheck"
     /\ syncs' = [syncs EXCEPT ![r] =
                    IF ~IsDefined(tables[model.table])
                    THEN NextModel([sr EXCEPT
                           !.operations = Append(@, PgCreateTable(model)),
                           !.logs = Append(@, Log("Postgres", "created table", "", model.table)),
                           !.m = @ + 1])
                    ELSE [sr EXCEPT !.pc = "columnCheck"]]
     /\ UNCHANGED <<tables, collections>>
     /\ SyncUnchanged

\* the relational planSync's query of information_schema.columns returns
PgColumnCheck(r) ==
  LET sr == syncs[r]
      model == models[sr.m]
      existingColumns == IF IsDefined(tables[model.table]) THEN Get(tables[model.table]) ELSE {}
      ops == PgAddColumns(model.table, model.fields, existingColumns)
  IN /\ sr.pc = "columnCheck"
     /\ syncs' = [syncs EXCEPT ![r] =
                    NextModel([sr EXCEPT !.operations = @ \o ops,
                                          !.logs = @ \o PgAddColumnLogs(ops),
                                          !.m = @ + 1])]
     /\ UNCHANGED <<tables, collections>>
     /\ SyncUnchanged

\* the relational sync's client.query(op) settles: the next operation, or the error leaves
\* sync()
PgApply(r) ==
  \E fault \in BOOLEAN :
    LET sr == syncs[r]
        res == IF fault THEN [ok |-> FALSE, error |-> Unreachable, db |-> tables]
               ELSE PgCommand(sr.operations[sr.i], tables)
    IN /\ sr.pc = "apply" /\ sr.adapter = "postgres"
       /\ tables' = res.db
       /\ syncs' = [syncs EXCEPT ![r] =
                      IF res.ok THEN Applying([sr EXCEPT !.i = @ + 1])
                      ELSE [sr EXCEPT !.pc = "done", !.faulted = fault,
                                       !.outcome = Threw("Error", res.error)]]
       /\ UNCHANGED collections
       /\ SyncUnchanged

\* the document planSync's listCollections returns: the plan is built without another await
MongoListCollections(r) ==
  LET sr == syncs[r]
      plan == MongoPlanSyncOf(models, collections)
  IN /\ sr.pc = "listCollections"
     /\ syncs' = [syncs EXCEPT ![r] =
                    Planned([sr EXCEPT !.operations = plan.operations, !.logs = plan.logs,
                                        !.m = Len(models) + 1])]
     /\ UNCHANGED <<tables, collections>>
     /\ SyncUnchanged

\* the document sync's db.command(op) settles: an error is caught and the loop goes on
MongoApply(r) ==
  \E fault \in BOOLEAN :
    LET sr == syncs[r]
        res == IF fault THEN [ok |-> FALSE, error |-> Unreachable, names |-> collections]
               ELSE MongoCommand(sr.operations[sr.i], collections)
    IN /\ sr.pc = "apply" /\ sr.adapter = "mongo"
       /\ collections' = res.names
       /\ syncs' = [syncs EXCEPT ![r] =
                      Applying([sr EXCEPT !.i = @ + 1, !.faulted = @ \/ fault])]
       /\ UNCHANGED tables
       /\ SyncUnchanged

NextSync ==
  \E r \in SyncRuns :
    \/ SyncStart(r) \/ PgTableCheck(r) \/ PgColumnCheck(r) \/ PgApply(r)
    \/ MongoListCollections(r) \/ MongoApply(r)

SpecSync == InitSync /\ [][NextSync]_vars

(***************************************************************************)
(* The aggregate specification: MongoAdapter.executeAggregate over a       *)
(* collection whose documents hold null, a number or an embedded document  *)
(* in the fields grouped by.  A value of a result is kept with its type:   *)
(* typeof null and typeof of a document are both "object".                 *)
(***************************************************************************)
JsNull == [t |-> "null", n |-> 0, entries |-> <<>>]
JsNumber(n) == [t |-> "number", n |-> n, entries |-> <<>>]
JsObject(entries) == [t |-> "object", n |-> 0, entries |-> entries]
Entry(key, value) == [key |-> key, value |-> value]

HasKey(obj, key) == \E i \in 1..Len(obj) : obj[i].key = key
Lookup(obj, key) == obj[CHOOSE i \in 1..Len(obj) : obj[i].key = key].value

\* obj[key] = value
SetKey(obj, key, value) ==
  IF HasKey(obj, key)
  THEN [i \in 1..Len(obj) |-> IF obj[i].key = key THEN Entry(key, value) ELSE obj[i]]
  ELSE Append(obj, Entry(key, value))

RECURSIVE ObjectAssign(_, _)
\* Object.assign(target, source)
ObjectAssign(target, source) ==
  IF Len(source) = 0 THEN target
  ELSE ObjectAssign(SetKey(target, source[1].key, source[1].value), Tail(source))

\* the _id the $group stage gives the group of a key
ResultId(id, key) ==
  CASE id.k = "null" -> JsNull
    [] id.k = "field" -> key[1]
    [] id.k = "object" -> JsObject([j \in 1..Len(id.fields) |-> Entry(id.fields[j], key[j])])

\* collection.aggregate(pipeline).toArray(): one {_id, ...accumulators} per group
AggregateResults(pipeline, docs) ==
  LET stage == IF pipeline[1].stage = "$match" THEN pipeline[2] ELSE pipeline[1]
  IN {[id |-> ResultId(stage.id, g.key),
       rest |-> [i \in 1..Len(stage.accumulators) |->
                   Entry(stage.accumulators[i].out, JsNumber(g.values[i]))]] :
      g \in MongoAggregate(pipeline, docs).groups}

\* the callback of results.map: _id is taken off and flattened onto the row
Reshape(r, query) ==
  IF r.id.t # "null"
  THEN IF r.id.t = "object"
       THEN ObjectAssign(r.rest, r.id.entries)
       ELSE IF IsDefined(query.groupBy) /\ Len(Get(query.groupBy)) = 1
            THEN SetKey(r.rest, Get(query.groupBy)[1], r.id)
            ELSE r.rest
  ELSE r.rest

\* executeAggregate(collection, query): each result with the row made of it
ExecuteAggregateOf(query, docs) ==
  {[result |-> r, row |-> Reshape(r, query)] :
     r \in AggregateResults(MongoPlanOf(query).pipeline, docs)}

AggQueries ==
  {q \in {QueryAST("select", Undefined, Undefined, gb, aggs, Undefined, Undefined, Undefined,
                   Undefined, Undefined) :
            gb \in {Undefined, Some(<<"a">>), Some(<<"b">>), Some(<<"a", "b">>)},
            aggs \in {Undefined, Some(<<AggregationOp("count", "a", Some("n"))>>),
                      Some(<<AggregationOp("count", "b", Undefined)>>)}} :
     IsDefined(q.groupBy) \/ IsDefined(q.aggregations)}

AggDocuments ==
  {[k |-> 1, a |-> a, b |-> b] :
     a \in {JsNull, JsNumber(1), JsObject(<<Entry("x", JsNumber(1))>>)},
     b \in {JsNull, JsNumber(2)}}

InitAggregate ==
  /\ aggQuery \in AggQueries
  /\ aggDocs \in {<<d>> : d \in AggDocuments} \cup {<<d, e>> : d, e \in AggDocuments}
  /\ aggOut = Undefined
  /\ adapters = [n \in {"primary"} |-> MongoAdapter]
  /\ CompilerIdle /\ ValidatorIdle /\ BuilderIdle /\ ResolverIdle /\ RouterIdle /\ TxIdle
  /\ SyncIdle

\* MongoAdapter.executeAggregate(collection, aggQuery)
ExecuteAggregate ==
  /\ aggOut = Undefined
  /\ aggOut' = Some(ExecuteAggregateOf(aggQuery, aggDocs))
  /\ UNCHANGED <<aggQuery, aggDocs, compilerVars, validatorVars, builderVars, resolverVars,
                 routerVars, txVars, syncVars>>

NextAggregate == ExecuteAggregate

SpecAggregate == InitAggregate /\ [][NextAggregate]_vars

(***************************************************************************)
(* Reading a compiled statement back: its placeholders in text order, and  *)
(* the literal each comparison of its WHERE clause and each SET entry is   *)
(* bound to.                                                               *)
(***************************************************************************)
RECURSIVE Placeholders(_)
Placeholders(text) ==
  IF Len(text) = 0 THEN <<>>
  ELSE (IF text[1].k = "ph" THEN <<text[1].n>> ELSE <<>>) \o Placeholders(Tail(text))

RECURSIVE CountTok(_, _)
CountTok(text, s) ==
  IF Len(text) = 0 THEN 0
  ELSE (IF text[1].k = "txt" /\ text[1].s = s THEN 1 ELSE 0) + CountTok(Tail(text), s)

Bound(values, n) == IF n \in 1..Len(values) THEN <<values[n]>> ELSE <<"unbound">>

RECURSIVE ConcatAll(_)
ConcatAll(ss) == IF Len(ss) = 0 THEN <<>> ELSE ss[1] \o ConcatAll(Tail(ss))

RECURSIVE ExprLeaves(_, _)
\* the comparisons of a parsed predicate, left to right, each with its bound literals
ExprLeaves(e, values) ==
  CASE e.k = "cmp" -> <<[field |-> e.field, lits |-> Bound(values, e.ph)]>>
    [] e.k = "in" -> <<[field |-> e.field,
                        lits |-> ConcatAll([j \in 1..Len(e.phs) |-> Bound(values, e.phs[j])])]>>
    [] e.k \in {"and", "or"} -> ConcatAll([j \in 1..Len(e.args) |-> ExprLeaves(e.args[j], values)])
    [] OTHER -> <<>>

RECURSIVE HasErr(_)
HasErr(e) ==
  CASE e.k = "err" -> TRUE
    [] e.k \in {"and", "or"} -> \E j \in 1..Len(e.args) : HasErr(e.args[j])
    [] OTHER -> FALSE

\* the parsed WHERE clause of a statement: [present, e, i]
WhereOf(text) ==
  IF \E i \in 1..Len(text) : TokIs(text, i, "WHERE")
  THEN LET w == CHOOSE i \in 1..Len(text) :
                  TokIs(text, i, "WHERE") /\ \A j \in 1..(i - 1) : ~TokIs(text, j, "WHERE")
           r == ParseOr(text, w + 1)
       IN [present |-> TRUE, e |-> r.e, i |-> r.i, at |-> w]
  ELSE [present |-> FALSE, e |-> [k |-> "const", b |-> "T"], i |-> Len(text) + 1, at |-> Len(text) + 1]

WhereBindings(text, values) == ExprLeaves(WhereOf(text).e, values)

RECURSIVE SetEntries(_, _, _, _)
\* key = $n, key = $m, ... from i up to (not including) position end
SetEntries(text, i, end, values) ==
  IF i + 2 < end + 0 /\ IsName(text, i) /\ TokIs(text, i + 1, "=") /\ IsPh(text, i + 2)
  THEN <<[field |-> text[i].s, lits |-> Bound(values, text[i + 2].n)]>>
       \o (IF TokIs(text, i + 3, ",") THEN SetEntries(text, i + 4, end, values) ELSE <<>>)
  ELSE <<>>

SetBindings(text, values) ==
  IF TokIs(text, 3, "SET") THEN SetEntries(text, 4, WhereOf(text).at + 1, values) ELSE <<>>

RECURSIVE AstLeaves(_)
\* the conditions of a list of logical conditions, depth first and left to right, that
\* carry literals, each with its literals
AstLeaves(cs) ==
  IF Len(cs) = 0 THEN <<>>
  ELSE (IF IsLogicalGroup(cs[1]) THEN AstLeaves(cs[1].conditions)
        ELSE IF Len(cs[1].value.items) = 0 THEN <<>>
        ELSE <<[field |-> cs[1].field, lits |-> cs[1].value.items]>>)
       \o AstLeaves(Tail(cs))

RECURSIVE EmptyIns(_)
\* how many conditions "in []" a list of logical conditions holds, at any depth
EmptyIns(cs) ==
  IF Len(cs) = 0 THEN 0
  ELSE (IF IsLogicalGroup(cs[1]) THEN EmptyIns(cs[1].conditions)
        ELSE IF cs[1].operator = "in" /\ cs[1].value.isArray /\ Len(cs[1].value.items) = 0 THEN 1
        ELSE 0)
       + EmptyIns(Tail(cs))

RECURSIVE ScalarIns(_)
\* how many conditions "in v" with v not an array a list of logical conditions holds
ScalarIns(cs) ==
  IF Len(cs) = 0 THEN 0
  ELSE (IF IsLogicalGroup(cs[1]) THEN ScalarIns(cs[1].conditions)
        ELSE IF cs[1].operator = "in" /\ ~cs[1].value.isArray THEN 1
        ELSE 0)
       + ScalarIns(Tail(cs))

FilterOf(q) == ListOf(q.conditions) \o ListOf(q.logical)

RECURSIVE EmptyInDocs(_)
\* the {field: {$in: []}} documents of a filter document
EmptyInDocs(doc) ==
  CASE doc.k = "cmp" -> IF doc.op = "$in" /\ Len(doc.value.items) = 0 THEN <<doc>> ELSE <<>>
    [] doc.k \in {"$and", "$or"} -> ConcatAll([j \in 1..Len(doc.clauses) |-> EmptyInDocs(doc.clauses[j])])
    [] OTHER -> <<>>

Ungrouped(q) == ~IsDefined(q.groupBy) /\ ~IsDefined(q.aggregations)
IsNested(q) ==
  \E i \in 1..Len(ListOf(q.logical)) :
    \E j \in 1..Len(ListOf(q.logical)[i].conditions) :
      IsLogicalGroup(ListOf(q.logical)[i].conditions[j])

(***************************************************************************)
(* C1.  Compiler parity without grouping: for every select AST with no     *)
(* groupBy and no aggregations, whose "in" conditions hold arrays, the     *)
(* relational statement and the document filter with its options return    *)
(* the same sequence of rows of the table, after orderBy, offset and limit *)
(* have been applied from each compiled form.                              *)
(***************************************************************************)
C1_FilterParity ==
  (IsDefined(pgPlan) /\ IsDefined(mongoPlan) /\ ast.type = "select" /\ Ungrouped(ast)
   /\ ScalarIns(FilterOf(ast)) = 0)
  => LET sql == SqlSelect(Get(pgPlan).query, Get(pgPlan).values, FixtureRows)
         doc == MongoFind(Get(mongoPlan), FixtureRows)
     IN sql.ok /\ doc.ok /\ sql.rows = doc.rows

\* the same parity for the selects of whole rows whose limit is absent or positive
ParityUnlessLimitZero ==
  (ast.limit # Some(0) /\ ~IsDefined(ast.select)) => C1_FilterParity

(***************************************************************************)
(* C2.  Compiler parity with grouping: for every select AST with groupBy   *)
(* and/or aggregations (count, sum, min, max) the relational statement and *)
(* the document pipeline produce the same groups and the same aggregate    *)
(* values per group over the table, also when rows hold null in the        *)
(* aggregated field.                                                       *)
(***************************************************************************)
C2_AggregateParity ==
  (IsDefined(pgPlan) /\ IsDefined(mongoPlan) /\ ast.type = "select" /\ ~Ungrouped(ast))
  => LET sql == SqlSelectGroups(Get(pgPlan).query, Get(pgPlan).values, FixtureRows)
         doc == MongoAggregate(Get(mongoPlan).pipeline, FixtureRows)
     IN sql.ok /\ doc.ok /\ sql.groups = doc.groups

\* the same parity when the aggregated field holds no null and groupBy, when present, names
\* a field (an empty groupBy makes the relational statement end with GROUP BY and no column)
AggregateParityWithoutNull ==
  (IsDefined(ast.aggregations) /\ ast.groupBy # Some(<<>>) /\ ~IsDefined(ast.select)
   /\ \A i \in 1..Len(Get(ast.aggregations)) : Get(ast.aggregations)[i].field = "a")
  => C2_AggregateParity

(***************************************************************************)
(* C3.  Placeholders: in the relational output of a select, update or      *)
(* delete the placeholders read $1..$n left to right, n the length of the  *)
(* value list; each comparison of the WHERE clause is bound to the         *)
(* literals of the condition at the same depth-first position of the AST,  *)
(* and for update the SET entries are bound to the data's values first.    *)
(***************************************************************************)
C3_Placeholders ==
  (IsDefined(pgPlan) /\ Get(pgPlan).type = "sql" /\ ast.type \in {"select", "update", "delete"})
  => LET text == Get(pgPlan).query
         values == Get(pgPlan).values
     IN /\ Placeholders(text) = [i \in 1..Len(values) |-> i]
        /\ ScalarIns(FilterOf(ast)) = 0 => WhereBindings(text, values) = AstLeaves(FilterOf(ast))
        /\ values = (IF ast.type = "update" THEN ObjectValues(Get(ast.data)) ELSE <<>>)
                    \o ConcatAll([i \in 1..Len(AstLeaves(FilterOf(ast))) |->
                                    AstLeaves(FilterOf(ast))[i].lits])
        /\ ast.type = "update" =>
             /\ SetBindings(text, values)
                  = [i \in 1..Len(Get(ast.data)) |->
                       [field |-> Get(ast.data)[i].key, lits |-> <<Get(ast.data)[i].value>>]]
             /\ SubSeq(values, 1, Len(Get(ast.data))) = ObjectValues(Get(ast.data))

\* an update whose WHERE holds a logical group and continues the numbering after SET
C3_Witness ==
  /\ IsDefined(pgPlan) /\ Get(pgPlan).type = "sql" /\ ast.type = "update"
  /\ Len(Get(ast.data)) = 2 /\ IsDefined(ast.conditions) /\ IsDefined(ast.logical)
  /\ Len(Get(pgPlan).values) >= 4

(***************************************************************************)
(* C4.  Empty "in": every condition "field in []", at any depth, becomes   *)
(* the text 1=0 and appends no value, so that the placeholders stay        *)
(* consecutive and the WHERE clause parses; in the document filter it is   *)
(* a {field: {$in: []}} that matches no row.                               *)
(***************************************************************************)
C4_EmptyIn ==
  (IsDefined(pgPlan) /\ Get(pgPlan).type = "sql" /\ IsDefined(mongoPlan)
   /\ ScalarIns(FilterOf(ast)) = 0)
  => LET text == Get(pgPlan).query
         values == Get(pgPlan).values
         filter == BuildFilter(ast)
     IN /\ CountTok(text, "1=0") = EmptyIns(FilterOf(ast))
        /\ Len(values) = Len(ConcatAll([i \in 1..Len(AstLeaves(FilterOf(ast))) |->
                                          AstLeaves(FilterOf(ast))[i].lits]))
                         + (IF ast.type \in {"update", "insert"} THEN Len(Get(ast.data)) ELSE 0)
        /\ Placeholders(text) = [i \in 1..Len(values) |-> i]
        /\ ~HasErr(WhereOf(text).e)
        /\ Get(mongoPlan).type = "mongo-query" => Get(mongoPlan).filter = filter
        /\ Len(EmptyInDocs(filter)) = EmptyIns(FilterOf(ast))
        /\ \A j \in 1..Len(EmptyInDocs(filter)) :
             \A r \in 1..Len(FixtureRows) : ~MongoMatch(EmptyInDocs(filter)[j], FixtureRows[r])

\* an empty "in" inside a logical group, with placeholders around it
C4_Witness ==
  /\ IsDefined(pgPlan) /\ Get(pgPlan).type = "sql" /\ IsDefined(mongoPlan)
  /\ EmptyIns(ListOf(ast.logical)) >= 1 /\ EmptyIns(ListOf(ast.conditions)) = 0
  /\ IsNested(ast)
  /\ Len(Get(pgPlan).values) >= 2

(***************************************************************************)
(* C5.  Capability gate: validateQuery throws CapabilityError exactly when *)
(* supportsAggregation is false and the AST holds a non-empty aggregations *)
(* list or a non-empty groupBy list; in every other case, whatever the     *)
(* other three flags, it returns true.                                     *)
(***************************************************************************)
C5_CapabilityGate ==
  (vResult # NotCalled)
  => LET rejects == /\ ~vCaps.supportsAggregation
                    /\ \/ vQuery.aggregations \notin {Undefined, Some(<<>>)}
                       \/ vQuery.groupBy \notin {Undefined, Some(<<>>)}
     IN /\ rejects => (vResult.state = "threw" /\ vResult.error = "CapabilityError")
        /\ ~rejects => vResult = Returned("true")

\* rejected on groupBy alone, with the other three flags set
C5_Witness ==
  /\ vResult.state = "threw" /\ vResult.error = "CapabilityError"
  /\ vQuery.aggregations \in {Undefined, Some(<<>>)}
  /\ vCaps.supportsTransactions /\ vCaps.supportsJoins /\ vCaps.supportsSchemaSync

(***************************************************************************)
(* C6.  Capability errors come before any backend I/O: when the validator  *)
(* rejects the query of a find, insert, update or delete, the call ends    *)
(* with that CapabilityError, and whenever a call ends with                *)
(* CapabilityError the adapter's execute() has not been called for it and  *)
(* no observer has been notified.                                          *)
(***************************************************************************)
C6_CapabilityErrorBeforeIO ==
  (run.pc # "idle")
  => LET valid == ValidateQuery(Get(run.query), Get(run.adapter).capabilities)
     IN /\ valid.state = "threw" => run.outcome = valid
        /\ (run.outcome.state = "threw" /\ run.outcome.error = "CapabilityError")
           => /\ run.pc = "done"
              /\ \A i \in 1..Len(events) : events[i].e \notin {"execute", "observer"}

\* a count query rejected on an adapter chosen by intent, with observers registered
C6_Witness ==
  /\ run.pc = "done" /\ run.outcome.state = "threw" /\ run.outcome.error = "CapabilityError"
  /\ Len(observers) = MaxObservers
  /\ Get(run.adapter) # adapters["primary"]

(***************************************************************************)
(* C7.  Router precedence: with primary registered, intent aggregate       *)
(* resolves to the adapter registered as analytics if there is one and to  *)
(* primary otherwise, intent read to the one registered as replica if      *)
(* there is one and to primary otherwise, and any other intent, absent     *)
(* included, to primary.                                                   *)
(***************************************************************************)
C7_RouterPrecedence ==
  IsDefined(resolved)
  => /\ (intent = Some("aggregate") /\ "analytics" \in DOMAIN adapters)
          => Get(resolved) = adapters["analytics"]
     /\ (intent = Some("aggregate") /\ "analytics" \notin DOMAIN adapters)
          => Get(resolved) = adapters["primary"]
     /\ (intent = Some("read") /\ "replica" \in DOMAIN adapters)
          => Get(resolved) = adapters["replica"]
     /\ (intent = Some("read") /\ "replica" \notin DOMAIN adapters)
          => Get(resolved) = adapters["primary"]
     /\ intent \notin {Some("aggregate"), Some("read")}
          => Get(resolved) = adapters["primary"]

\* read falls back to primary although analytics, a different adapter, is registered
C7_Witness ==
  /\ IsDefined(resolved) /\ intent = Some("read")
  /\ DOMAIN adapters = {"primary", "analytics"}
  /\ adapters["analytics"] # adapters["primary"]
  /\ Get(resolved) = adapters["primary"]

(***************************************************************************)
(* C8.  Observers: when the backend execution of a query has completed and *)
(* the call has ended, every observer registered at that time has been     *)
(* invoked exactly once for it, in registration order.                     *)
(***************************************************************************)
C8_ObserversNotified ==
  (run.pc = "done" /\ run.completed)
  => LET IsObserver(ev) == ev.e = "observer"
         notified == SelectSeq(events, IsObserver)
     IN [i \in 1..Len(notified) |-> notified[i].observer]
          = [i \in 1..Len(run.registered) |-> run.registered[i].id]

\* the same when no registered observer throws, and then the result is returned
ObserversNotifiedUnlessOneThrows ==
  (\A i \in 1..Len(run.registered) : ~run.registered[i].throws)
  => /\ C8_ObserversNotified
     /\ (run.pc = "done" /\ run.completed) => run.outcome = Returned("result")

(***************************************************************************)
(* C9.  The AST is a value: an AST returned by build() reads the same      *)
(* after any later builder call as it read when it was returned.           *)
(***************************************************************************)
C9_BuiltASTUnchanged ==
  \A i \in 1..Len(built) : ReadAST(built[i].ast, qb.b) = built[i].returned

(***************************************************************************)
(* C10.  Every AST returned by build() holds data if and only if its kind  *)
(* is insert or update.                                                    *)
(***************************************************************************)
C10_DataIffInsertOrUpdate ==
  \A i \in 1..Len(built) :
    IsDefined(built[i].returned.data) <=> built[i].returned.type \in {"insert", "update"}

(***************************************************************************)
(* C11.  Kind is last-write-wins: a new builder is in mode select; a call  *)
(* of insert, update or delete makes the mode insert, update or delete;    *)
(* where, or, and, limit, offset, paginate, orderBy, select, groupBy and   *)
(* the aggregation methods leave the mode as it was; and build() returns   *)
(* an AST whose kind is the mode at the time of the call.                  *)
(***************************************************************************)
C11_KindLastWriteWins ==
  /\ qb.b.mode = "select"
  /\ [][/\ BuilderInsert => qb'.b.mode = "insert"
        /\ BuilderUpdate => qb'.b.mode = "update"
        /\ BuilderDelete => qb'.b.mode = "delete"
        /\ (BuilderWhere \/ BuilderOr \/ BuilderAnd \/ BuilderLimit \/ BuilderOffset
            \/ BuilderPaginate \/ BuilderOrderBy \/ BuilderSelect \/ BuilderGroupBy
            \/ BuilderAggregate) => qb'.b.mode = qb.b.mode
        /\ BuilderBuild => /\ qb'.b.mode = qb.b.mode
                           /\ built'[Len(built')].returned.type = qb.b.mode]_vars

\* insert or update, then delete, then build: the AST is a delete although data was set
C11_Witness ==
  /\ qb.calls = 3 /\ Len(built) = 1
  /\ built[1].returned.type = "delete" /\ IsDefined(built[1].returned.data)

(***************************************************************************)
(* C12.  Transaction: begin is issued on the primary adapter before the    *)
(* callback runs; when the callback has completed and the call has ended,  *)
(* commit has been issued and rollback has not; when the callback has      *)
(* raised and the call has ended, rollback has been issued, commit has     *)
(* not, and the call has raised the callback's error, or the rollback's    *)
(* own error when the rollback failed.                                     *)
(***************************************************************************)
C12_Transaction ==
  LET Issued(op) == \E j \in 1..Len(tx.calls) : tx.calls[j].op = op
  IN /\ Issued("callback") => tx.calls[1] = Call("begin", adapters["primary"].name)
     /\ (tx.pc = "done" /\ tx.callback = "resolved")
          => Issued("commit") /\ ~Issued("rollback")
     /\ (tx.pc = "done" /\ tx.callback = "rejected")
          => /\ Issued("rollback") /\ ~Issued("commit")
             /\ tx.outcome = IF tx.rollback = "rejected" THEN Threw("Error", "rollback")
                             ELSE Threw("Error", "callback")

\* the same when commit() does not reject
TransactionUnlessCommitRejects ==
  (tx.commit # "rejected") => C12_Transaction

\* a rejected begin() or commit() is rolled back too, and its error raised
TransactionRollsBackEveryError ==
  (tx.pc = "done" /\ (tx.begin = "rejected" \/ tx.commit = "rejected"))
  => /\ tx.calls[Len(tx.calls)].op = "rollback"
     /\ tx.outcome.state = "threw"

\* what an operation brings into being: its table, or a column of its table
Creates(op) ==
  IF op.op = "CREATE TABLE" THEN {<<op.table, "">>} \cup {<<op.table, op.columns[j].field>> : j \in 1..Len(op.columns)}
  ELSE {<<op.table, op.columns[j].field>> : j \in 1..Len(op.columns)}

\* what the operations a relational sync() has applied so far have brought into being
AppliedBy(sr) ==
  UNION {Creates(sr.operations[j]) : j \in 1..(sr.i - 1)}

\* a relational sync() that has ended at an operation answered with "already exists"
HitConflict(sr) ==
  /\ sr.call = "sync" /\ sr.adapter = "postgres" /\ sr.pc = "done"
  /\ sr.outcome \in {Threw("Error", "42P07 relation already exists"),
                     Threw("Error", "42701 column already exists")}

(***************************************************************************)
(* C13.  Migration idempotence: a relational planSync called after a       *)
(* relational sync() of the same schemas has applied its plan and returned *)
(* gives an empty operation list and an empty log list, whatever the       *)
(* physical schema was before the sync.                                    *)
(***************************************************************************)
C13_SyncIdempotent ==
  \A r \in SyncRuns :
    (syncs[r].call = "planSync" /\ syncs[r].adapter = "postgres" /\ syncs[r].afterSync
     /\ syncs[r].pc = "done")
    => /\ syncs[r].outcome = Returned("plan")
       /\ syncs[r].operations = <<>>
       /\ syncs[r].logs = <<>>

\* a sync that created a table and added a column, and the planSync after it
C13_Witness ==
  \E r, r2 \in SyncRuns :
    /\ syncs[r].call = "planSync" /\ syncs[r].adapter = "postgres" /\ syncs[r].afterSync
    /\ syncs[r].pc = "done"
    /\ syncs[r2].call = "sync" /\ syncs[r2].adapter = "postgres"
    /\ \E j, k \in 1..Len(syncs[r2].operations) :
         /\ syncs[r2].operations[j].op = "CREATE TABLE"
         /\ syncs[r2].operations[k].op = "ADD COLUMN"

(***************************************************************************)
(* C14.  Concurrent syncs: a relational sync() that finds an operation of  *)
(* its plan already applied by another relational sync() does not abort:   *)
(* it goes on with the rest of its plan and returns.                       *)
(***************************************************************************)
C14_ConflictTolerated ==
  \A r, r2 \in SyncRuns :
    (/\ r # r2
     /\ syncs[r].call = "sync" /\ syncs[r].adapter = "postgres" /\ syncs[r].pc = "done"
     /\ syncs[r2].call = "sync" /\ syncs[r2].adapter = "postgres"
     /\ syncs[r].i <= Len(syncs[r].operations)
     /\ Creates(syncs[r].operations[syncs[r].i]) \cap AppliedBy(syncs[r2]) # {}
     /\ ~syncs[r].faulted)
    => /\ syncs[r].outcome = Returned("undefined")

(***************************************************************************)
(* C15.  Errors of sync() are raised: when an operation of a sync() has    *)
(* failed because the backend could not be reached, the call ends by       *)
(* raising an error, in the relational and in the document adapter.        *)
(***************************************************************************)
C15_SyncRaises ==
  \A r \in SyncRuns :
    (syncs[r].call = "sync" /\ syncs[r].pc = "done" /\ syncs[r].faulted)
    => syncs[r].outcome.state = "threw"

\* the relational sync() raises the error of the operation that failed
PgSyncRaises ==
  \A r \in SyncRuns :
    (syncs[r].call = "sync" /\ syncs[r].adapter = "postgres" /\ syncs[r].pc = "done")
    => \/ syncs[r].outcome = Returned("undefined") /\ syncs[r].i = Len(syncs[r].operations) + 1
       \/ syncs[r].outcome.state = "threw" /\ syncs[r].i <= Len(syncs[r].operations)

\* the document sync() returns whatever its commands did
MongoSyncReturns ==
  \A r \in SyncRuns :
    (syncs[r].call = "sync" /\ syncs[r].adapter = "mongo" /\ syncs[r].pc = "done")
    => syncs[r].outcome = Returned("undefined")

(***************************************************************************)
(* C16.  Missing data: for an insert or update AST whose data is absent,   *)
(* plan() of the relational and of the document adapter ends with an       *)
(* error and returns no plan.                                              *)
(***************************************************************************)
C16_MissingDataFails ==
  (ast.type \in {"insert", "update"} /\ ~IsDefined(ast.data))
  => /\ IsDefined(pgPlan) => Get(pgPlan).type = "threw"
     /\ IsDefined(mongoPlan) => Get(mongoPlan).type = "threw"

\* the relational plan() does end with an error
PgMissingDataFails ==
  (ast.type \in {"insert", "update"} /\ ~IsDefined(ast.data) /\ IsDefined(pgPlan))
  => Get(pgPlan) = PlanThrew("TypeError", "Cannot convert undefined or null to object")

\* the document plan() returns a plan whose data is undefined
MongoMissingDataPlans ==
  (ast.type \in {"insert", "update"} /\ ~IsDefined(ast.data) /\ IsDefined(mongoPlan))
  => Get(mongoPlan) = [type |-> "mongo-query", filter |-> BuildFilter(ast), data |-> Undefined]

(***************************************************************************)
(* C17.  Pipeline shape: for a select AST with groupBy or aggregations the *)
(* document pipeline is $match (iff the compiled filter is not empty),     *)
(* one $group, $sort (iff orderBy), $skip (iff offset), $limit (iff        *)
(* limit), in this order; the $group key is "$field" for one groupBy       *)
(* field, an object with an entry per field for several, and null when no  *)
(* field is grouped by.                                                    *)
(***************************************************************************)
C17_PipelineShape ==
  (IsDefined(mongoPlan) /\ ast.type = "select" /\ ~Ungrouped(ast))
  => LET pipeline == Get(mongoPlan).pipeline
         filter == BuildFilter(ast)
         fields == ListOf(ast.groupBy)
         gi == IF filter.k = "empty" THEN 1 ELSE 2
     IN /\ Get(mongoPlan).type = "mongo-pipeline"
        /\ [i \in 1..Len(pipeline) |-> pipeline[i].stage]
             = (IF filter.k = "empty" THEN <<>> ELSE <<"$match">>) \o <<"$group">>
               \o (IF IsDefined(ast.orderBy) THEN <<"$sort">> ELSE <<>>)
               \o (IF IsDefined(ast.offset) THEN <<"$skip">> ELSE <<>>)
               \o (IF IsDefined(ast.limit) THEN <<"$limit">> ELSE <<>>)
        /\ filter.k # "empty" => pipeline[1].filter = filter
        /\ Len(fields) = 0 => pipeline[gi].id.k = "null"
        /\ Len(fields) = 1 => pipeline[gi].id = [k |-> "field", fields |-> fields]
        /\ Len(fields) > 1 => pipeline[gi].id = [k |-> "object", fields |-> fields]
        /\ \A i \in 1..Len(pipeline) :
             /\ pipeline[i].stage = "$skip" => pipeline[i].n = Get(ast.offset)
             /\ pipeline[i].stage = "$limit" => pipeline[i].n = Get(ast.limit)

\* all five stages, limit 0, grouped by two fields
C17_Witness ==
  /\ IsDefined(mongoPlan) /\ ast.type = "select" /\ Len(ListOf(ast.groupBy)) = 2
  /\ ast.limit = Some(0)
  /\ Get(mongoPlan).type = "mongo-pipeline" /\ Len(Get(mongoPlan).pipeline) = 5

\* a single groupBy field, and no filter
C17_WitnessSingle ==
  /\ IsDefined(mongoPlan) /\ ast.type = "select" /\ Len(ListOf(ast.groupBy)) = 1
  /\ Get(mongoPlan).type = "mongo-pipeline" /\ Get(mongoPlan).pipeline[1].stage = "$group"

(***************************************************************************)
(* C18.  Execution order: in every execution the adapter is resolved,      *)
(* then the AST is validated against its capabilities, then compiled       *)
(* (adapter.plan), then executed, then the observers are notified; the     *)
(* compiler is never called on an AST the validator rejects, and the       *)
(* validator is called once.                                               *)
(***************************************************************************)
C18_ExecutionOrder ==
  (run.pc # "idle")
  => LET At(e) == {i \in 1..Len(events) : events[i].e = e}
         Before(e, f) == \A i \in At(e), j \in At(f) : i < j
     IN /\ Before("getAdapterByIntent", "validateQuery")
        /\ Before("validateQuery", "plan")
        /\ Before("plan", "execute")
        /\ Before("execute", "observer")
        /\ Cardinality(At("validateQuery")) = 1
        /\ (run.outcome.state = "threw" /\ run.outcome.error = "CapabilityError")
             => At("plan") = {}

\* what the code does: resolve, compile, validate once, execute, notify
ExecutionOrderPlanFirst ==
  (run.pc # "idle")
  => LET names == [i \in 1..Len(events) |-> events[i].e]
         head == <<"getAdapterByIntent", "plan", "validateQuery", "execute">>
     IN /\ Len(names) >= 3
        /\ \A i \in 1..Len(names) : names[i] = IF i <= 4 THEN head[i] ELSE "observer"

(***************************************************************************)
(* C19.  Reshaping: every row the document adapter returns for a grouped   *)
(* select has no _id key and holds, under each field named in groupBy,     *)
(* the value the documents of its group have in that field: for one        *)
(* groupBy field and for several, and also when that value is null or an   *)
(* embedded document.                                                      *)
(***************************************************************************)
C19_GroupRowsCarryKeys ==
  IsDefined(aggOut)
  => \A o \in Get(aggOut) :
       /\ ~HasKey(o.row, "_id")
       /\ \E i \in 1..Len(aggDocs) :
            \A j \in 1..Len(ListOf(aggQuery.groupBy)) :
              LET f == ListOf(aggQuery.groupBy)[j]
              IN HasKey(o.row, f) /\ Lookup(o.row, f) = aggDocs[i][f]

\* the same when the key of a group of a single field is a number, and for several fields
GroupRowsCarryPlainKeys ==
  (\/ Len(ListOf(aggQuery.groupBy)) # 1
   \/ \A i \in 1..Len(aggDocs) : aggDocs[i][ListOf(aggQuery.groupBy)[1]].t = "number")
  => C19_GroupRowsCarryKeys

\* the column list of a relational select: the text between SELECT and FROM
ColumnList(text) ==
  LET from == CHOOSE i \in 1..Len(text) :
                TokIs(text, i, "FROM") /\ \A j \in 1..(i - 1) : ~TokIs(text, j, "FROM")
  IN SubSeq(text, 2, from - 1)

\* FUNC(field) or FUNC(field) AS alias, the function upper-cased
AggregationColumns(q) ==
  [i \in 1..Len(ListOf(q.aggregations)) |->
     LET agg == ListOf(q.aggregations)[i]
     IN <<Tok(ToUpperCase(agg.function)), Tok("("), Tok(agg.field), Tok(")")>>
        \o (IF IsDefined(agg.alias) THEN <<Tok("AS"), Tok(Get(agg.alias))>> ELSE <<>>)]

ProjectionColumns(q) == [i \in 1..Len(ListOf(q.select)) |-> <<Tok(ListOf(q.select)[i])>>]

(***************************************************************************)
(* C20.  Column list: for every select AST the relational column list is   *)
(* the aggregation items in AST order, each FUNC(field) or FUNC(field) AS  *)
(* alias with the function upper-cased, followed by the projection fields  *)
(* in AST order; it is * if and only if there are neither aggregations nor *)
(* a projection.                                                           *)
(***************************************************************************)
C20_ColumnList ==
  (IsDefined(pgPlan) /\ ast.type = "select")
  => ColumnList(Get(pgPlan).query)
       = IF ~IsDefined(ast.aggregations) /\ ~IsDefined(ast.select) THEN <<Tok("*")>>
         ELSE Join(AggregationColumns(ast) \o ProjectionColumns(ast), Tok(","))

\* what the code emits: the projection fields first, then the aggregation items
ColumnListProjectionFirst ==
  (IsDefined(pgPlan) /\ ast.type = "select")
  => ColumnList(Get(pgPlan).query)
       = IF ~IsDefined(ast.aggregations) /\ ~IsDefined(ast.select) THEN <<Tok("*")>>
         ELSE Join(ProjectionColumns(ast) \o AggregationColumns(ast), Tok(","))

\* the column list as the claim has it whenever projection and aggregations do not meet
ColumnListUnlessBoth ==
  (~IsDefined(ast.aggregations) \/ ~IsDefined(ast.select)) => C20_ColumnList

RECURSIVE AllIns(_)
\* the conditions with operator "in" of a list of logical conditions, depth first
AllIns(cs) ==
  IF Len(cs) = 0 THEN <<>>
  ELSE (IF IsLogicalGroup(cs[1]) THEN AllIns(cs[1].conditions)
        ELSE IF cs[1].operator = "in" THEN <<cs[1]>>
        ELSE <<>>)
       \o AllIns(Tail(cs))

\* those that are not "in []" (which is rendered 1=0)
InConditions(cs) ==
  SelectSeq3(AllIns(cs), 1,
             {i \in 1..Len(AllIns(cs)) :
                ~(AllIns(cs)[i].value.isArray /\ Len(AllIns(cs)[i].value.items) = 0)})

RECURSIVE InDocs(_)
\* the {field: {$in: ...}} documents of a filter document, depth first
InDocs(doc) ==
  CASE doc.k = "cmp" -> IF doc.op = "$in" THEN <<doc>> ELSE <<>>
    [] doc.k \in {"$and", "$or"} -> ConcatAll([j \in 1..Len(doc.clauses) |-> InDocs(doc.clauses[j])])
    [] OTHER -> <<>>

\* the texts "field IN ( $n , ... )" of a statement, left to right: [field, phs, ok]
InLists(text) ==
  LET at == SelectSeq3([i \in 1..Len(text) |-> i], 1, {i \in 1..Len(text) : TokIs(text, i, "IN")})
  IN [j \in 1..Len(at) |->
        IF TokIs(text, at[j] + 1, "(") /\ ParsePhList(text, at[j] + 2, <<>>).ok
        THEN [field |-> text[at[j] - 1].s, phs |-> ParsePhList(text, at[j] + 2, <<>>).phs, ok |-> TRUE]
        ELSE [field |-> text[at[j] - 1].s, phs |-> <<>>, ok |-> FALSE]]

\* the document compiler's half: {field: {$in: list}}, the list [v] for a single value v
InDocsAreLists(q) ==
  /\ Len(InDocs(BuildFilter(q))) = Len(AllIns(FilterOf(q)))
  /\ \A j \in 1..Len(InDocs(BuildFilter(q))) : InDocs(BuildFilter(q))[j].value.isArray
  /\ [j \in 1..Len(InDocs(BuildFilter(q))) |->
        [field |-> InDocs(BuildFilter(q))[j].field, lits |-> InDocs(BuildFilter(q))[j].value.items]]
       = [j \in 1..Len(AllIns(FilterOf(q))) |->
            [field |-> AllIns(FilterOf(q))[j].field, lits |-> AllIns(FilterOf(q))[j].value.items]]

(***************************************************************************)
(* C21.  "in" is set membership in both compilers, also for a value v that *)
(* is not an array: the relational text of every condition "field in ..."  *)
(* (other than "in []") is field IN ( $n, ... ) with one placeholder per   *)
(* element, each bound to its element, so "field in v" is field IN ( $n )  *)
(* with $n bound to v; the document filter holds {field: {$in: list}},     *)
(* the list being [v] for a single value v.                                *)
(***************************************************************************)
C21_InIsMembership ==
  (IsDefined(pgPlan) /\ Get(pgPlan).type = "sql" /\ IsDefined(mongoPlan))
  => LET text == Get(pgPlan).query
         values == Get(pgPlan).values
         ins == InConditions(FilterOf(ast))
     IN /\ Len(InLists(text)) = Len(ins)
        /\ \A j \in 1..Len(ins) :
             /\ InLists(text)[j].ok
             /\ InLists(text)[j].field = ins[j].field
             /\ [k \in 1..Len(InLists(text)[j].phs) |-> Bound(values, InLists(text)[j].phs[k])[1]]
                  = ins[j].value.items
        /\ InDocsAreLists(ast)

\* the document compiler does so for every "in", and the relational one for every array
InIsMembershipOfArrays ==
  /\ IsDefined(mongoPlan) => InDocsAreLists(ast)
  /\ ScalarIns(FilterOf(ast)) = 0 => C21_InIsMembership

\* what the relational compiler emits for "field in v": field IN $n, without the list
ScalarInHasNoList ==
  (IsDefined(pgPlan) /\ Get(pgPlan).type = "sql")
  => LET text == Get(pgPlan).query
         ins == InConditions(FilterOf(ast))
     IN /\ Len(InLists(text)) = Len(ins)
        /\ \A j \in 1..Len(ins) :
             InLists(text)[j].ok <=> ins[j].value.isArray
        /\ \A i \in 1..Len(text) :
             (TokIs(text, i, "IN") /\ ~TokIs(text, i + 1, "(")) => IsPh(text, i + 1)

\* the operations the claim gives the document-store plan, by kind and collection: per
\* schema, in registration order, create if the collection is absent, then collMod
DocumentPlanShape(ms, existingNames) ==
  ConcatAll([j \in 1..Len(ms) |->
               (IF ms[j].table \in existingNames THEN <<>> ELSE <<<<"create", ms[j].table>>>>)
               \o <<<<"collMod", ms[j].table>>>>])

\* a run of the document-store planner that has built its plan
MongoPlanned(r) == syncs[r].adapter = "mongo" /\ syncs[r].pc \in {"apply", "done"}

(***************************************************************************)
(* C22.  Document-store plan: for the schemas and the collections that     *)
(* listCollections returned, the plan holds, per schema in registration    *)
(* order, a create operation if and only if the collection is absent,      *)
(* followed by exactly one collMod for that collection; so a plan for n    *)
(* schemas has at least n operations, also right after a successful sync.  *)
(***************************************************************************)
C22_DocumentPlan ==
  /\ [][\A r \in SyncRuns :
          MongoListCollections(r)
          => [i \in 1..Len(syncs'[r].operations) |->
                <<syncs'[r].operations[i].op, syncs'[r].operations[i].table>>]
               = DocumentPlanShape(models, collections)]_vars
  /\ [](\A r \in SyncRuns :
          MongoPlanned(r)
          => /\ Len(syncs[r].operations) >= Len(models)
             /\ Len(SelectSeq3(syncs[r].operations, 1,
                               {i \in 1..Len(syncs[r].operations) :
                                  syncs[r].operations[i].op = "collMod"})) = Len(models))

\* planSync right after a sync() that returned and created every collection: two schemas,
\* two operations, both collMod
C22_Witness ==
  \E r \in SyncRuns :
    /\ MongoPlanned(r) /\ syncs[r].call = "planSync" /\ syncs[r].afterSync
    /\ Len(models) = 2 /\ Len(syncs[r].operations) = 2
    /\ \E r2 \in SyncRuns : syncs[r2].adapter = "mongo" /\ syncs[r2].call = "sync"
                            /\ \E i \in 1..Len(syncs[r2].operations) :
                                 syncs[r2].operations[i].op = "create"

\* what a log line says was planned, as the kind of operation it describes
Describes(log) ==
  CASE log.what = "created table" -> "CREATE TABLE"
    [] log.what = "appended column" -> "ADD COLUMN"
    [] log.what = "scheduled collection creation" -> "create"
    [] log.what = "mapped $jsonSchema validations" -> "collMod"
    [] OTHER -> "?"

(***************************************************************************)
(* C23.  Parallel logs: in every plan of the relational and of the         *)
(* document-store planner the log list is as long as the operation list    *)
(* and the i-th log line describes the i-th operation: the same table or   *)
(* collection, the same kind of change (and for an appended column the     *)
(* same column); the relational plan is tagged sql, the document plan      *)
(* mongo.                                                                  *)
(***************************************************************************)
C23_ParallelLogs ==
  \A r \in SyncRuns :
    LET sr == syncs[r]
    IN /\ Len(sr.logs) = Len(sr.operations)
       /\ \A i \in 1..Len(sr.operations) :
            /\ i <= Len(sr.logs)
            /\ sr.logs[i].table = sr.operations[i].table
            /\ Describes(sr.logs[i]) = sr.operations[i].op
            /\ sr.logs[i].adapter = (IF sr.adapter = "postgres" THEN "Postgres" ELSE "Mongo")
            /\ sr.operations[i].op = "ADD COLUMN"
                 => sr.logs[i].field = sr.operations[i].columns[1].field
       /\ sr.pc \in {"apply", "done"}
            => sr.type = (IF sr.adapter = "postgres" THEN "sql" ELSE "mongo")

\* a relational plan that appends two columns to a table and creates another, beside a
\* document plan that creates a collection
C23_Witness ==
  \E r, r2 \in SyncRuns :
    /\ syncs[r].adapter = "postgres" /\ syncs[r].pc = "done" /\ syncs[r].call = "planSync"
    /\ \E i, j \in 1..Len(syncs[r].operations) :
         /\ i < j
         /\ syncs[r].operations[i].op = "ADD COLUMN" /\ syncs[r].operations[j].op = "ADD COLUMN"
         /\ syncs[r].operations[i].table = syncs[r].operations[j].table
    /\ syncs[r2].adapter = "mongo" /\ syncs[r2].pc = "done" /\ syncs[r2].call = "planSync"
    /\ \E i \in 1..Len(syncs[r2].operations) : syncs[r2].operations[i].op = "create"

\* the fixed type table as the claim has it
ClaimedType(fieldType) ==
  CASE fieldType = "string" -> "VARCHAR(255)"
    [] fieldType = "number" -> "FLOAT"
    [] fieldType = "boolean" -> "BOOLEAN"
    [] fieldType = "date" -> "TIMESTAMP"
    [] fieldType = "object" -> "JSON"
    [] fieldType = "array" -> "JSON"
    [] OTHER -> "TEXT"

\* the type table with the binary JSON type for object and array
BinaryJsonType(fieldType) ==
  IF fieldType \in {"object", "array"} THEN "JSONB" ELSE ClaimedType(fieldType)

\* the type names the schemas use
FieldTypes == {ms[j].fields[k].def.type : <<ms, j, k>> \in {x \in SchemaSets \X (1..2) \X (1..3) :
                                          x[2] <= Len(x[1]) /\ x[3] <= Len(x[1][x[2]].fields)}}
ClaimedTypeTable == [t \in FieldTypes |-> ClaimedType(t)]
BinaryJsonTypeTable == [t \in FieldTypes |-> BinaryJsonType(t)]

\* the fields of a model, in declaration order, that are not id and not among existing
MissingFields(model, existing) ==
  SelectSeq3(model.fields, 1,
             {k \in 1..Len(model.fields) :
                model.fields[k].field # "id" /\ model.fields[k].field \notin existing})

\* planSync's step for a model is the one the claim describes, under the type table T
RelationalPlanWith(T) ==
     \A r \in SyncRuns :
       /\ (PgTableCheck(r) /\ ~IsDefined(tables[models[syncs[r].m].table]))
          => LET model == models[syncs[r].m]
                 fields == MissingFields(model, {})
             IN syncs'[r].operations
                  = Append(syncs[r].operations,
                           Operation("CREATE TABLE", model.table,
                                     <<Column("id", "SERIAL PRIMARY KEY")>>
                                     \o [k \in 1..Len(fields) |->
                                           Column(fields[k].field, T[fields[k].def.type])]))
       /\ (PgTableCheck(r) /\ IsDefined(tables[models[syncs[r].m].table]))
          => syncs'[r].operations = syncs[r].operations
       /\ PgColumnCheck(r)
          => LET model == models[syncs[r].m]
                 fields == MissingFields(model, IF IsDefined(tables[model.table])
                                                THEN Get(tables[model.table]) ELSE {})
             IN syncs'[r].operations
                  = syncs[r].operations
                    \o [k \in 1..Len(fields) |->
                          Operation("ADD COLUMN", model.table,
                                    <<Column(fields[k].field, T[fields[k].def.type])>>)]

(***************************************************************************)
(* C24.  Relational plan: for a schema whose table is absent the planner   *)
(* emits one CREATE TABLE whose columns are the id primary key followed by *)
(* one column per declared field other than id, in declaration order; for  *)
(* a present table one ADD COLUMN per declared field missing from the      *)
(* existing columns; the column type is string to VARCHAR(255), number to  *)
(* FLOAT, boolean to BOOLEAN, date to TIMESTAMP, object and array to JSON. *)
(***************************************************************************)
C24_RelationalPlan == [][RelationalPlanWith(ClaimedTypeTable)]_vars

\* the same plan with object and array mapped to JSONB, as typeMap has them
RelationalPlanBinaryJson == [][RelationalPlanWith(BinaryJsonTypeTable)]_vars

\* no operation of a plan gives a column the type JSON
NoJsonColumn ==
  \A r \in SyncRuns :
    \A i \in 1..Len(syncs[r].operations) :
      \A k \in 1..Len(syncs[r].operations[i].columns) :
        syncs[r].operations[i].columns[k].type # "JSON"

(***************************************************************************)
(* C25.  Paging values: whatever QueryBuilder calls were made with         *)
(* non-negative integer arguments (limit(n), offset(n), paginate(page,     *)
(* pageSize)), the limit and the offset of every AST build() returns are   *)
(* each absent or a non-negative integer.                                  *)
(***************************************************************************)
C25_PagingNonNegative ==
  \A i \in 1..Len(built) :
    /\ IsDefined(built[i].returned.limit) => Get(built[i].returned.limit) \in Nat
    /\ IsDefined(built[i].returned.offset) => Get(built[i].returned.offset) \in Nat

\* the limit is never negative, and limit(n) and offset(n) store what they are given
PagingOfLimitAndOffset ==
  /\ [](\A i \in 1..Len(built) :
          IsDefined(built[i].returned.limit) => Get(built[i].returned.limit) \in Nat)
  /\ [][/\ BuilderLimit => (qb'.b.limitValue # Undefined /\ Get(qb'.b.limitValue) \in Nat
                            /\ qb'.b.offsetValue = qb.b.offsetValue)
        /\ BuilderOffset => (qb'.b.offsetValue # Undefined /\ Get(qb'.b.offsetValue) \in Nat
                             /\ qb'.b.limitValue = qb.b.limitValue)]_vars

\* a negative offset is minus the page size of a paginate call: page 0
NegativeOffsetIsOfPageZero ==
  [][BuilderPaginate
     => \/ Get(qb'.b.offsetValue) \in Nat
        \/ Get(qb'.b.offsetValue) = 0 - Get(qb'.b.limitValue)]_vars

\* the statements of a transaction
TxStatements == {"begin", "commit", "rollback"}

(***************************************************************************)
(* C26.  Single backend: during Synqra.transaction, begin, commit and      *)
(* rollback are issued to the primary adapter only, never to a replica or  *)
(* analytics adapter, whichever adapters the queries the callback runs are *)
(* routed to.                                                              *)
(***************************************************************************)
C26_PrimaryOnly ==
  \A j \in 1..Len(tx.calls) :
    tx.calls[j].op \in TxStatements => tx.calls[j].adapter = adapters["primary"].name

\* a committed transaction whose callback ran a read on the replica and an aggregate on
\* the analytics adapter, both other adapters than the primary
C26_Witness ==
  /\ tx.pc = "done" /\ tx.commit = "resolved"
  /\ {"replica", "analytics"} \subseteq DOMAIN adapters
  /\ adapters["replica"].name # adapters["primary"].name
  /\ adapters["analytics"].name # adapters["primary"].name
  /\ \E i, j \in 1..Len(tx.calls) :
       /\ tx.calls[i] = Call("execute", adapters["replica"].name)
       /\ tx.calls[j] = Call("execute", adapters["analytics"].name)

(***************************************************************************)
(* C29.  Rollback only after begin: Synqra.transaction issues rollback on  *)
(* the primary adapter only after begin has succeeded on it; when begin    *)
(* itself fails, no rollback and no commit are issued and the callback is  *)
(* not run.                                                                *)
(***************************************************************************)
C29_RollbackAfterBegin ==
  /\ \A j \in 1..Len(tx.calls) : tx.calls[j].op = "rollback" => tx.begin = "resolved"
  /\ tx.begin = "rejected"
       => \A j \in 1..Len(tx.calls) : tx.calls[j].op \notin {"rollback", "commit", "callback"}

\* when begin fails the callback is not run and commit is not issued, but rollback is, and
\* the call raises the error of begin, or of the rollback when that fails too
BeginFailureRollsBack ==
  (tx.begin = "rejected")
  => /\ [j \in 1..Len(tx.calls) |-> tx.calls[j].op] = <<"begin", "rollback">>
     /\ tx.pc = "done" => tx.outcome = (IF tx.rollback = "rejected" THEN Threw("Error", "rollback")
                                        ELSE Threw("Error", "begin"))

\* the adapters the step's execution was started on (adapter.execute called)
ExecutedOn == {events'[i].adapter : i \in {j \in 1..Len(events') : events'[j].e = "execute"}}

(***************************************************************************)
(* C27.  Writes go to the primary: an insert, update or delete issued      *)
(* through db.from(...) is executed on the primary adapter, whatever       *)
(* replica and analytics adapters are registered and whatever chained      *)
(* calls, intent(...) included, were made on the query before it; only     *)
(* find is ever executed on a replica or analytics adapter.                *)
(***************************************************************************)
C27_WritesOnPrimary ==
  [][(Insert \/ Update \/ Delete) => ExecutedOn \subseteq {adapters["primary"].name}]_vars

\* so it is when intent(...) was not called on the query, or was called with "write"
WritesOnPrimaryUnlessForced ==
  [][((Insert \/ Update \/ Delete) /\ sq.forcedIntent \in {Undefined, Some("write")})
     => ExecutedOn \subseteq {adapters["primary"].name}]_vars

\* a write is routed by the forced intent, like a find
WritesFollowForcedIntent ==
  [][(Insert \/ Update \/ Delete)
     => /\ sq.forcedIntent = Some("read") /\ "replica" \in DOMAIN adapters
             => ExecutedOn \subseteq {adapters["replica"].name}
        /\ sq.forcedIntent = Some("aggregate") /\ "analytics" \in DOMAIN adapters
             => ExecutedOn \subseteq {adapters["analytics"].name}]_vars

(***************************************************************************)
(* C28.  find is a select: find() on a query obtained from db.from(...)    *)
(* executes an AST of kind select, whatever terminal operations (insert,   *)
(* update, delete) were called earlier on the same query object.           *)
(***************************************************************************)
C28_FindIsSelect ==
  [][Find => Get(run'.query).type = "select"]_vars

\* find() builds the AST of the builder's mode, which the earlier terminal call left; it
\* is select on a query on which no insert, update or delete was called
FindKeepsBuilderMode ==
  /\ sq.builder.mode = "select"
  /\ [][/\ Find => Get(run'.query).type = sq.builder.mode
        /\ (Find \/ Intent \/ Count) => sq'.builder.mode = sq.builder.mode
        /\ From => sq'.builder.mode = "select"]_vars

\* a plan that holds two CREATE TABLE operations for one table
CreatesTwice(sr) ==
  \E i, j \in 1..Len(sr.operations) :
    /\ i < j
    /\ sr.operations[i].op = "CREATE TABLE" /\ sr.operations[j].op = "CREATE TABLE"
    /\ sr.operations[i].table = sr.operations[j].table

\* the models are those of a registry keyed by name: distinct names, each with the table
\* db.model gives its name
RegisteredModels ==
  /\ \A j, k \in 1..Len(models) : models[j].name = models[k].name => j = k
  /\ \A j \in 1..Len(models) : models[j].table = TableOf(models[j].name)

(***************************************************************************)
(* C30.  One CREATE TABLE per table: a relational migration plan never     *)
(* holds two CREATE TABLE operations for the same table, for any set of    *)
(* models registered with db.model (the table is the lower-cased name plus *)
(* s, the models are keyed by their exact name: User and user).            *)
(***************************************************************************)
C30_OneCreatePerTable ==
  \A r \in SyncRuns : syncs[r].adapter = "postgres" => ~CreatesTwice(syncs[r])

\* so it is when no two registered models have the same table
OneCreatePerTableOfDistinctTables ==
  /\ RegisteredModels
  /\ (\A j, k \in 1..Len(models) : models[j].table = models[k].table => j = k)
       => C30_OneCreatePerTable

\* sync() of two models of one absent table: the second CREATE TABLE is answered with
\* "relation already exists" and the fields of the second model are never added
SecondCreateFails ==
  \A r \in SyncRuns :
    (/\ syncs[r].adapter = "postgres" /\ syncs[r].call = "sync" /\ syncs[r].pc = "done"
     /\ CreatesTwice(syncs[r]))
    => syncs[r].outcome.state = "threw"

====
